---- MODULE Spec2Model ----
(***************************************************************************)
(* The capture-to-transcript pipeline of live_transcriber_app              *)
(* (src/main_adaptive.py): the module globals, the recording worker, the   *)
(* transcription worker, the PortAudio callback and the Tk handlers that    *)
(* start, stop and poll a listening session.                                *)
(*                                                                         *)
(* A thread is identified by the number of the session that spawned it     *)
(* (1..MaxSessions); recording_thread / transcription_thread hold the      *)
(* number of the thread object most recently created, 0 for None.          *)
(* A block is identified by its capture number; `blocks` keeps, for every  *)
(* block put into audio_queue, the facts the properties refer to.          *)
(***************************************************************************)
EXTENDS Integers, Sequences, FiniteSets, TLC

\* ---------------------------------------------------------------- bounds
MaxSessions == 2
MaxBlocks == 2
MaxDeviceId == 1
\* lines a worker finds waiting in transcript_queue when it pushes: the 100 ms
\* poll empties the queue far more often than a worker fills it
MaxPending == 2
SilentRun == 400
\* blocks delivered to the one session that exercises the volume check
GateBlocks == 6
\* pieces of an engine result given to the length checks
MaxPieces == 3
\* lengths, in words, of the texts given to the repetition filter
MinWords == 8
MaxWords == 10
\* consecutive float32 peaks tried around each chosen amplitude
PeakRun == 16

\* ------------------------------------------------------ program constants
\* volumes are RMS levels in units of 0.0001
VolLow == 10
VolHigh == 100
max_no_audio_warnings == 3
NumConfigs == 4
\* the repetition filter: texts of more than 8 words, words of more than 2
\* characters, a count above 0.4 of the words; texts of fewer than 5 characters
RepetitionMinWords == 8
MinWordLength == 2
RepetitionNum == 4
RepetitionDen == 10
MinTextLength == 5
\* preprocessing is for blocks of more than 1000 samples
MinChunkLength == 1000

None == -1
\* identifiers of the enumerated input devices
DeviceIds == 0..MaxDeviceId
Sessions == 1..MaxSessions

VARIABLES
    is_listening,          \* global is_listening
    stop_listening_event,  \* threading.Event: TRUE when set
    audio_queue,           \* the queue the global audio_queue names now: block ids
    transcript_queue,      \* lines waiting for the GUI poll
    whisper_model,         \* "none" or "loaded"
    selected_device_id,    \* a device id or None
    recording_thread,      \* latest recording Thread object (0 = None)
    transcription_thread,  \* latest transcription Thread object (0 = None)
    rec_pc,                \* position of each record_audio thread
    rec_dev,               \* selected_device_id captured in device_configs
    rec_started,           \* the 'Listening started' lines each record_audio
                           \* thread has pushed
    rec_cfg,               \* number of the device_configs entry being attempted
                           \* (0: none)
    trans_pc,              \* position of each process_transcription thread
    trans_cur,             \* block in the engine call of each transcription thread
    no_audio_counter,      \* local of each process_transcription thread
    button_text,           \* listen_button['text']
    button_state,          \* listen_button['state']
    menu_state,            \* device_menu['state']
    device_var,            \* device the StringVar names
    gui_pc,                \* "idle", "restart" inside on_device_select, "asking"
                           \* and "closing" inside on_closing, "closed" at the end
    nsessions,             \* calls of start_listening_actions so far
    blocks,                \* one record per block put into a queue
    trial_ok,              \* hardware: the candidates whose trial recording works
    words,                 \* text.split() of an engine result after clean-up
    filter_lines,          \* the lines pushed for that text (none before the filter)
    text,                  \* the characters of the engine result being processed
    text_pc,               \* "none", "raw" (as the engine returned it) or "clean"
    chunk                  \* the block being preprocessed: its samples, its peak,
                           \* the build's quotient width, the gain and the result

vars == << is_listening, stop_listening_event, audio_queue, transcript_queue,
           whisper_model, selected_device_id, recording_thread,
           transcription_thread, rec_pc, rec_dev, trans_pc, trans_cur,
           no_audio_counter, button_text, button_state, menu_state, device_var,
           gui_pc, nsessions, blocks, rec_cfg, trial_ok, words, filter_lines, text, text_pc, chunk,
           rec_started >>

\* what the handlers and the worker steps leave alone: the hardware, and the
\* text under the repetition filter
env_vars == << trial_ok, words, filter_lines, text, text_pc, chunk >>
gui_vars == << button_text, button_state, menu_state, device_var, gui_pc >>
rec_vars == << rec_pc, rec_dev, rec_cfg, rec_started >>
trans_vars == << trans_pc, trans_cur, no_audio_counter >>
thread_refs == << recording_thread, transcription_thread >>

\* ---------------------------------------------------------------- helpers
Line(tag, arg) == [tag |-> tag, arg |-> arg]

\* transcript_queue.put by a worker thread, line by line
put(lines) ==
    /\ lines # << >> => Len(transcript_queue) < MaxPending
    /\ transcript_queue' = transcript_queue \o lines

\* what the hardware delivers: a loud block of English speech the engine
\* transcribes, a loud block on which the engine raises
BlockKinds == { [vol |-> 200, eng |-> "ok", lang |-> "en"],
                [vol |-> 200, eng |-> "raise", lang |-> "en"] }

\* the same and more: all-zero and barely audible blocks, a block exactly at
\* the low threshold, weak blocks, a block exactly at the high threshold,
\* loud Tagalog speech
AllBlockKinds ==
    BlockKinds \cup
    { [vol |-> v, eng |-> "ok", lang |-> "en"] : v \in {0, VolLow, 50, VolHigh} } \cup
    { [vol |-> 200, eng |-> "ok", lang |-> "tl"] }

\* a thread that has ended is "done" (its loop ended), "failed" (record_audio
\* found no configuration that opens, process_transcription could not load the
\* model) or "returned" (record_audio found no working device)
RecAlive(s) == rec_pc[s] \in {"start", "open", "opened", "streaming"}
TransAlive(t) == trans_pc[t] \in {"start", "loading", "loop", "engine", "simple"}
\* Thread.is_alive() of the object a global names; `not thread` for None
recording_thread_dead == recording_thread = 0 \/ ~RecAlive(recording_thread)
transcription_thread_dead == transcription_thread = 0 \/ ~TransAlive(transcription_thread)

\* device_configs of record_audio: (device, sample rate)
DeviceConfigs(dev) == << <<dev, 16000>>, <<dev, 44100>>, <<dev, 22050>>, <<None, 16000>> >>

\* ------------------------------------- float32 arithmetic, lines 207-218
\* A positive float32 is [m, e] for m * 2^e with 2^23 <= m < 2^24; m = 0 is
\* zero. Results are rounded to nearest, ties to even, as NumPy rounds them.
RECURSIVE Pow2(_)
Pow2(n) == IF n = 0 THEN 1 ELSE 2 * Pow2(n - 1)

F32(m, e) == [m |-> m, e |-> e]
F32Zero == F32(0, 0)

\* a < b for two float32
F32Less(a, b) ==
    IF a.m = 0 THEN b.m # 0
    ELSE IF b.m = 0 THEN FALSE
    ELSE a.e < b.e \/ (a.e = b.e /\ a.m < b.m)

\* q * 2^e with q < 2^31 rounded to 24 bits; sticky says that bits below q
\* were dropped
Round24(q, sticky, e) ==
    IF q < Pow2(24) THEN F32(q, e)
    ELSE LET s == CHOOSE k \in 1..7 : q < Pow2(24 + k) /\ q >= Pow2(23 + k)
             m0 == q \div Pow2(s)
             rest == q % Pow2(s)
             half == Pow2(s - 1)
             up == rest > half \/ (rest = half /\ (sticky \/ m0 % 2 = 1))
             m1 == IF up THEN m0 + 1 ELSE m0
         IN  IF m1 = Pow2(24) THEN F32(Pow2(23), e + s + 1) ELSE F32(m1, e + s)

\* the float32 product a * b: the 48-bit product of the mantissas is held in
\* two halves of 24 bits
F32Mul(a, b) ==
    LET a1 == a.m \div 4096
        a0 == a.m % 4096
        b1 == b.m \div 4096
        b0 == b.m % 4096
        mid == a1 * b0 + a0 * b1
        low == (mid % 4096) * 4096 + a0 * b0
        high == a1 * b1 + mid \div 4096 + low \div Pow2(24)
        rest == low % Pow2(24)
    IN  IF a.m = 0 \/ b.m = 0 THEN F32Zero
        ELSE IF high >= Pow2(23)
        THEN LET up == rest > Pow2(23) \/ (rest = Pow2(23) /\ high % 2 = 1)
                 m1 == IF up THEN high + 1 ELSE high
             IN  IF m1 = Pow2(24) THEN F32(Pow2(23), a.e + b.e + 25)
                 ELSE F32(m1, a.e + b.e + 24)
        ELSE LET m0 == 2 * high + rest \div Pow2(23)
                 r == rest % Pow2(23)
                 up == r > Pow2(22) \/ (r = Pow2(22) /\ m0 % 2 = 1)
                 m1 == IF up THEN m0 + 1 ELSE m0
             IN  IF m1 = Pow2(24) THEN F32(Pow2(23), a.e + b.e + 24)
                 ELSE F32(m1, a.e + b.e + 23)

\* the bits of v, most significant first, on w places
RECURSIVE Bits(_, _)
Bits(v, w) == IF w = 0 THEN << >> ELSE Append(Bits(v \div 2, w - 1), v % 2)

RECURSIVE Zeros(_)
Zeros(n) == IF n = 0 THEN << >> ELSE Append(Zeros(n - 1), 0)

\* long division by k of the number with the digits num in the given base,
\* from remainder r with the quotient digits q found so far
RECURSIVE LongDiv(_, _, _, _, _)
LongDiv(num, base, k, r, q) ==
    IF num = << >> THEN [q |-> q, r |-> r]
    ELSE LET r2 == base * r + Head(num)
         IN  LongDiv(Tail(num), base, k, r2 % k, Append(q, r2 \div k))

\* the digits in base 2^w of the number with the bits bs, and back
BitsToDigits(bs, w) ==
    [i \in 1..(Len(bs) \div w) |->
        LET d == [j \in 1..w |-> bs[(i - 1) * w + j] * Pow2(w - j)]
        IN  IF w = 1 THEN d[1] ELSE d[1] + d[2] + d[3] + d[4] + d[5] + d[6]]
DigitsToBits(ds, w) ==
    [i \in 1..(Len(ds) * w) |->
        (ds[(i - 1) \div w + 1] \div Pow2(w - 1 - ((i - 1) % w))) % 2]

RECURSIVE DropZeros(_)
DropZeros(bs) == IF bs # << >> /\ Head(bs) = 0 THEN DropZeros(Tail(bs)) ELSE bs

RECURSIVE BitsValue(_)
BitsValue(bs) ==
    IF bs = << >> THEN 0 ELSE 2 * BitsValue(SubSeq(bs, 1, Len(bs) - 1)) + bs[Len(bs)]

\* the bits bs, not all ones, plus one: the last 0 becomes 1 and the ones
\* behind it become 0
BitsIncrement(bs) ==
    LET z == CHOOSE i \in 1..Len(bs) :
                 bs[i] = 0 /\ \A j \in (i + 1)..Len(bs) : bs[j] = 1
    IN  [i \in 1..Len(bs) |-> IF i < z THEN bs[i] ELSE IF i = z THEN 1 ELSE 0]

\* the significant bits bs (first bit 1), with sticky for what was dropped
\* below them, rounded to p bits: [bits, carry], carry if the rounding went up
\* to the next power of two
RoundBits(bs, sticky, p) ==
    IF Len(bs) <= p THEN [bits |-> bs \o Zeros(p - Len(bs)), carry |-> FALSE]
    ELSE LET kept == SubSeq(bs, 1, p)
             guard == bs[p + 1]
             below == sticky \/ \E i \in (p + 2)..Len(bs) : bs[i] = 1
             up == guard = 1 /\ (below \/ kept[p] = 1)
         IN  IF ~up THEN [bits |-> kept, carry |-> FALSE]
             ELSE IF \A i \in 1..p : kept[i] = 1
                  THEN [bits |-> << 1 >> \o Zeros(p - 1), carry |-> TRUE]
             ELSE [bits |-> BitsIncrement(kept), carry |-> FALSE]

\* 0.7 as a float32: 11744051 * 2^-24
Float32_0_7 == F32(11744051, -24)
\* 0.7 as a float64: 16#16666666666666 * 2^-53, as 53 bits
Float64_0_7 == Bits(22, 5) \o Bits(6710886, 24) \o Bits(6710886, 24)
\* 3.0 and 0.001 as float32
Float32_3_0 == F32(12582912, -22)
Float32_0_001 == F32(8589935, -33)

\* `0.7 / max_amplitude` where the quotient of a Python float and a float32
\* scalar is a float32: fl32(fl32(0.7) / x)
QuotientFloat32(x) ==
    LET d == LongDiv(Bits(Float32_0_7.m, 24) \o Zeros(25), 2, x.m, 0, << >>)
    IN  Round24(BitsValue(DropZeros(d.q)), d.r # 0, Float32_0_7.e - x.e - 25)

\* `0.7 / max_amplitude` where the quotient is a float64, which the product
\* with the float32 array takes as a float32: fl32(fl64(0.7 / x))
QuotientFloat64(x) ==
    LET d == LongDiv(BitsToDigits(Float64_0_7 \o Zeros(31), 6), 64, x.m, 0, << >>)
        sig == DropZeros(DigitsToBits(d.q, 6))
        r53 == RoundBits(sig, d.r # 0, 53)
        r24 == RoundBits(r53.bits, FALSE, 24)
        e == Len(sig) - 24 - 31 - 53 - x.e
    IN  F32(BitsValue(r24.bits),
            e + (IF r53.carry THEN 1 ELSE 0) + (IF r24.carry THEN 1 ELSE 0))

\* line 217: `max_amplitude > 0.001`. The float32 x is compared with the
\* float32 nearest to 0.001, which is above 0.001, or as a float64 with the
\* float64 nearest to 0.001, which lies just below that float32
exceeds_threshold(x, width) ==
    IF width = 32 THEN F32Less(Float32_0_001, x) ELSE ~F32Less(x, Float32_0_001)

\* a faulty variant of gain_of: the amplification is not limited
gain_of_uncapped(x, width) ==
    IF width = 32 THEN QuotientFloat32(x) ELSE QuotientFloat64(x)

\* line 218: min(0.7 / max_amplitude, 3.0) in a build whose quotient has the
\* given width
gain_of(x, width) ==
    LET q == IF width = 32 THEN QuotientFloat32(x) ELSE QuotientFloat64(x)
    IN  IF F32Less(q, Float32_3_0) THEN q ELSE Float32_3_0

\* a block before preprocessing: len samples, max_amplitude the peak of the
\* samples once their mean is subtracted, width the quotient width of the build
Chunk(len, max_amplitude, width) ==
    [len |-> len, max_amplitude |-> max_amplitude, width |-> width,
     pc |-> "raw", centred |-> FALSE, gain |-> F32Zero, peak |-> F32Zero]
NoChunk == [Chunk(0, F32Zero, 32) EXCEPT !.pc = "none"]

\* lines 207-218: the preprocessing of the block; centred says that the mean
\* was subtracted, gain is the factor applied (zero if none), peak the peak of
\* the samples handed to the volume check when the mean was subtracted
preprocess ==
    /\ chunk.pc = "raw"
    /\ chunk' =
         IF chunk.len > MinChunkLength
         THEN IF exceeds_threshold(chunk.max_amplitude, chunk.width)
              THEN LET g == gain_of(chunk.max_amplitude, chunk.width)
                   IN  [chunk EXCEPT !.pc = "done", !.centred = TRUE, !.gain = g,
                                     !.peak = F32Mul(chunk.max_amplitude, g)]
              ELSE [chunk EXCEPT !.pc = "done", !.centred = TRUE,
                                 !.peak = chunk.max_amplitude]
         ELSE [chunk EXCEPT !.pc = "done"]
    /\ UNCHANGED << is_listening, stop_listening_event, audio_queue, transcript_queue,
                    whisper_model, selected_device_id, thread_refs, rec_vars,
                    trans_vars, gui_vars, nsessions, blocks, trial_ok, words,
                    filter_lines, text, text_pc >>

\* --------------------------------------------------------------- Init
\* the module globals and the widgets after Application.__init__; dev is what
\* on_device_select made of the name device_var holds, ok the hardware's
\* answer to trial recordings
\* a faulty variant of Application_init: the button is left enabled
Application_init_enabled(dev, ok, found, pc) ==
    /\ is_listening = FALSE
    /\ stop_listening_event = FALSE
    /\ audio_queue = << >>
    /\ transcript_queue = << >>
    /\ whisper_model = "none"
    /\ device_var = dev
    /\ selected_device_id = dev
    /\ recording_thread = 0
    /\ transcription_thread = 0
    /\ rec_pc = [s \in Sessions |-> "unborn"]
    /\ rec_dev = [s \in Sessions |-> None]
    /\ rec_cfg = [s \in Sessions |-> 0]
    /\ rec_started = [s \in Sessions |-> 0]
    /\ trans_pc = [s \in Sessions |-> "unborn"]
    /\ trans_cur = [s \in Sessions |-> 0]
    /\ no_audio_counter = [s \in Sessions |-> 0]
    /\ button_text = "LISTEN NOW"
    /\ button_state = "normal"
    /\ menu_state = "normal"
    /\ gui_pc = pc
    /\ nsessions = 0
    /\ blocks = << >>
    /\ trial_ok = ok
    /\ filter_lines = << >>

\* Application.__init__ and the globals of the module: found says whether
\* list_audio_devices returned an input device (the LISTEN button is disabled
\* if not), pc is where the GUI stands when the constructor is left
Application_init(dev, ok, found, pc) ==
    /\ is_listening = FALSE
    /\ stop_listening_event = FALSE
    /\ audio_queue = << >>
    /\ transcript_queue = << >>
    /\ whisper_model = "none"
    /\ device_var = dev
    /\ selected_device_id = dev
    /\ recording_thread = 0
    /\ transcription_thread = 0
    /\ rec_pc = [s \in Sessions |-> "unborn"]
    /\ rec_dev = [s \in Sessions |-> None]
    /\ rec_cfg = [s \in Sessions |-> 0]
    /\ rec_started = [s \in Sessions |-> 0]
    /\ trans_pc = [s \in Sessions |-> "unborn"]
    /\ trans_cur = [s \in Sessions |-> 0]
    /\ no_audio_counter = [s \in Sessions |-> 0]
    /\ button_text = "LISTEN NOW"
    /\ button_state = IF found THEN "normal" ELSE "disabled"
    /\ menu_state = "normal"
    /\ gui_pc = pc
    /\ nsessions = 0
    /\ blocks = << >>
    /\ trial_ok = ok
    /\ filter_lines = << >>

\* the program started with input devices, its window open
Boot(dev, ok) == Application_init(dev, ok, TRUE, "idle")

\* the program started with input devices present: the default device is
\* selected, every trial recording would work
Init == Boot(0, {None} \cup DeviceIds) /\ words = << >> /\ text = << >> /\ text_pc = "none" /\ chunk = NoChunk

\* the program with a device name that is not a key of input_devices:
\* on_device_select left selected_device_id None, record_audio auto-detects
AutoInit == \E ok \in SUBSET ({None} \cup DeviceIds) : Boot(None, ok) /\ words = << >> /\ text = << >> /\ text_pc = "none" /\ chunk = NoChunk

\* ------------------------------------------------------------ GUI handlers
\* Application.stop_listening_actions
stop_listening_actions ==
    IF ~is_listening /\ ~stop_listening_event
    THEN UNCHANGED << is_listening, stop_listening_event, button_text, button_state >>
    ELSE /\ is_listening' = FALSE
         /\ stop_listening_event' = TRUE
         /\ button_text' = "Processing..."
         /\ button_state' = "disabled"

\* Application.start_listening_actions; selected_device_id is re-read from
\* input_devices when the selected name is one of its keys
start_listening_actions ==
    /\ nsessions < MaxSessions
    /\ selected_device_id' = IF device_var \in DeviceIds THEN device_var
                                                       ELSE selected_device_id
    /\ is_listening' = TRUE
    /\ stop_listening_event' = FALSE
    /\ audio_queue' = << >>
    /\ transcript_queue' = Append(transcript_queue, Line("NEW_SESSION", nsessions + 1))
    /\ nsessions' = nsessions + 1
    /\ recording_thread' = nsessions + 1
    /\ transcription_thread' = nsessions + 1
    /\ rec_pc' = [rec_pc EXCEPT ![nsessions + 1] = "start"]
    /\ trans_pc' = [trans_pc EXCEPT ![nsessions + 1] = "start"]
    /\ button_text' = "STOP LISTENING"
    /\ menu_state' = "disabled"
    /\ UNCHANGED << button_state, whisper_model, rec_dev, rec_started, rec_cfg, trans_cur,
                    no_audio_counter, device_var, blocks, env_vars >>

\* Application.toggle_listening: the command of listen_button, which Tk runs
\* only while the button is not disabled
toggle_listening ==
    /\ gui_pc = "idle"
    /\ button_state = "normal"
    /\ IF is_listening
       THEN /\ stop_listening_actions
            /\ UNCHANGED << audio_queue, transcript_queue, whisper_model,
                            selected_device_id, thread_refs, rec_vars, trans_vars,
                            menu_state, device_var, nsessions, blocks, env_vars >>
       ELSE start_listening_actions
    /\ UNCHANGED gui_pc

\* Application.on_device_select(_event) for device d, up to and including
\* its call of stop_listening_actions
on_device_select(d) ==
    /\ gui_pc = "idle"
    /\ device_var' = d
    /\ selected_device_id' = d
    /\ IF is_listening
       THEN /\ nsessions < MaxSessions
            /\ stop_listening_actions
            /\ gui_pc' = "restart"
       ELSE /\ selected_device_id # d
            /\ UNCHANGED << is_listening, stop_listening_event, button_text,
                            button_state, gui_pc >>
    /\ UNCHANGED << audio_queue, transcript_queue, whisper_model, thread_refs,
                    rec_vars, trans_vars, menu_state, nsessions, blocks, env_vars >>

\* Application.on_device_select: its call of start_listening_actions
on_device_select_restart ==
    /\ gui_pc = "restart"
    /\ start_listening_actions
    /\ gui_pc' = "idle"

\* Application.on_closing, lines 574-576 and 581-583: the window is destroyed
\* at once when not listening; otherwise the confirmation dialog opens, and
\* the timer and the workers go on running while it is open
on_closing ==
    /\ gui_pc = "idle"
    /\ gui_pc' = IF is_listening THEN "asking" ELSE "closed"
    /\ UNCHANGED << is_listening, stop_listening_event, audio_queue, transcript_queue,
                    whisper_model, selected_device_id, thread_refs, rec_vars,
                    trans_vars, button_text, button_state, menu_state, device_var,
                    nsessions, blocks, env_vars >>

\* Application.on_closing, lines 576-580: the answer to the dialog; on yes
\* stop_listening_actions runs and the handler sleeps 0.5 s
on_closing_answer(yes) ==
    /\ gui_pc = "asking"
    /\ IF yes
       THEN /\ stop_listening_actions
            /\ gui_pc' = "closing"
       ELSE /\ gui_pc' = "idle"
            /\ UNCHANGED << is_listening, stop_listening_event, button_text,
                            button_state >>
    /\ UNCHANGED << audio_queue, transcript_queue, whisper_model, selected_device_id,
                    thread_refs, rec_vars, trans_vars, menu_state, device_var,
                    nsessions, blocks, env_vars >>

\* Application.on_closing, line 578: after the sleep the window is destroyed,
\* mainloop returns and the process ends with its daemon threads
on_closing_destroy ==
    /\ gui_pc = "closing"
    /\ gui_pc' = "closed"
    /\ UNCHANGED << is_listening, stop_listening_event, audio_queue, transcript_queue,
                    whisper_model, selected_device_id, thread_refs, rec_vars,
                    trans_vars, button_text, button_state, menu_state, device_var,
                    nsessions, blocks, env_vars >>

\* Application.update_gui_after_stop
update_gui_after_stop ==
    /\ button_text' = "LISTEN NOW"
    /\ button_state' = "normal"
    /\ menu_state' = "normal"
    /\ transcript_queue' = << Line("INFO_STOPPED", 0) >>

\* a faulty variant of threads_confirmed_stopped: only the recorder is awaited
threads_confirmed_stopped_recorder_only ==
    /\ recording_thread_dead
    /\ audio_queue = << >>

\* the test of update_transcript_display that decides the return to Idle
threads_confirmed_stopped ==
    /\ recording_thread_dead
    /\ transcription_thread_dead
    /\ audio_queue = << >>

\* Application.update_transcript_display: the 100 ms poll. It renders every
\* waiting line, then looks whether a requested stop has completed
update_transcript_display ==
    /\ gui_pc \in {"idle", "asking"}
    /\ IF stop_listening_event /\ button_text = "Processing..." /\ threads_confirmed_stopped
       THEN update_gui_after_stop
       ELSE /\ transcript_queue # << >>
            /\ transcript_queue' = << >>
            /\ UNCHANGED << button_text, button_state, menu_state >>
    /\ UNCHANGED << is_listening, stop_listening_event, audio_queue, whisper_model,
                    selected_device_id, thread_refs, rec_vars, trans_vars,
                    device_var, gui_pc, nsessions, blocks, env_vars >>

\* -------------------------------------------------------- recording worker
\* audio_callback on the stream that thread s holds open: a block of kind k
\* arrives; it is queued on whatever queue the global names, if is_listening
audio_callback(s, k) ==
    /\ rec_pc[s] = "streaming"
    /\ is_listening
    /\ audio_queue' = Append(audio_queue, Len(blocks) + 1)
    /\ blocks' = Append(blocks, [src |-> s, vol |-> k.vol, eng |-> k.eng,
                                 lang |-> k.lang, flag |-> stop_listening_event,
                                 deq |-> 0, by |-> 0, calls |-> 0])
    /\ UNCHANGED << is_listening, stop_listening_event, transcript_queue,
                    whisper_model, selected_device_id, thread_refs, rec_vars,
                    trans_vars, gui_vars, nsessions, env_vars >>

\* find_working_device, line 85: the system default first, then the
\* enumerated input devices in order
test_devices == << None >> \o [i \in 1..(MaxDeviceId + 1) |-> i - 1]

\* find_working_device, lines 87-109: the first candidate whose trial
\* recording works is returned; None when no trial works
RECURSIVE FirstWorking(_, _)
FirstWorking(works, i) ==
    IF i > Len(test_devices) THEN None
    ELSE IF test_devices[i] \in works THEN test_devices[i]
    ELSE FirstWorking(works, i + 1)
\* a faulty variant of find_working_device: the search keeps the last working
\* input device instead of returning at the first
find_last_working_device(works) ==
    IF works \cap DeviceIds = {} THEN None
    ELSE CHOOSE d \in works \cap DeviceIds : \A e \in works \cap DeviceIds : e <= d

find_working_device(works) == FirstWorking(works, 1)

\* record_audio, lines 118-129: auto-detection when no device is selected,
\* then stop_listening_event.clear()
record_audio_begin(s) ==
    /\ rec_pc[s] = "start"
    /\ LET auto == selected_device_id = None
           found == IF auto THEN find_working_device(trial_ok) ELSE selected_device_id
           searching == IF auto THEN << Line("INFO_SEARCHING", 0) >> ELSE << >>
       IN  /\ selected_device_id' = found
           /\ IF found = None
              THEN /\ put(searching \o << Line("ERROR_NO_DEVICE", 0) >>)
                   /\ stop_listening_event' = TRUE
                   /\ rec_pc' = [rec_pc EXCEPT ![s] = "returned"]
                   /\ UNCHANGED << rec_dev, rec_started, rec_cfg >>
              ELSE /\ put(searching)
                   /\ stop_listening_event' = FALSE
                   /\ rec_pc' = [rec_pc EXCEPT ![s] = "open"]
                   /\ rec_dev' = [rec_dev EXCEPT ![s] = found]
                   /\ UNCHANGED rec_started
                   /\ rec_cfg' = [rec_cfg EXCEPT ![s] = 1]
    /\ UNCHANGED << is_listening, audio_queue, whisper_model, thread_refs,
                    trans_vars, gui_vars, nsessions, blocks, env_vars >>

\* record_audio, lines 161-171: the for loop ran out of configurations; the
\* raise of its else clause is caught, the finally block resets is_listening
record_audio_failed(s) ==
    /\ put(<< Line("ERROR_RECORDING", 0), Line("INFO_TRY_OTHER", 0) >>)
    /\ is_listening' = FALSE
    /\ rec_pc' = [rec_pc EXCEPT ![s] = "failed"]
    /\ rec_cfg' = [rec_cfg EXCEPT ![s] = 0]

\* record_audio, lines 158-163: the inner except clause; the loop goes on with
\* the next configuration, or ends when there is none
next_config(s) ==
    IF rec_cfg[s] < NumConfigs
    THEN /\ rec_cfg' = [rec_cfg EXCEPT ![s] = @ + 1]
         /\ rec_pc' = [rec_pc EXCEPT ![s] = "open"]
         /\ UNCHANGED << is_listening, transcript_queue >>
    ELSE record_audio_failed(s)

\* record_audio, lines 140-148: sd.InputStream for the configuration the loop
\* is at opens the stream or raises
record_audio_open(s, opens) ==
    /\ rec_pc[s] = "open"
    /\ IF opens
       THEN /\ rec_pc' = [rec_pc EXCEPT ![s] = "opened"]
            /\ UNCHANGED << is_listening, transcript_queue, rec_cfg >>
       ELSE next_config(s)
    /\ UNCHANGED << stop_listening_event, audio_queue, whisper_model,
                    selected_device_id, thread_refs, rec_dev, rec_started, trans_vars,
                    gui_vars, nsessions, blocks, env_vars >>

\* record_audio, lines 150-152, inside the with block: the name of the device
\* is looked up (sd.query_devices, not for the system default) and the INFO
\* line pushed; a raising lookup closes the stream and lands in the inner
\* except clause. The first callback is a whole block length away
record_audio_announce_at(s, named, cfg) ==
    /\ rec_pc[s] = "opened"
    /\ LET device_id == DeviceConfigs(rec_dev[s])[rec_cfg[s]][1]
       IN  IF named \/ device_id = None
           THEN /\ put(<< Line("INFO_STARTED", device_id) >>)
                /\ rec_started' = [rec_started EXCEPT ![s] = @ + 1]
                /\ rec_pc' = [rec_pc EXCEPT ![s] = "streaming"]
                /\ rec_cfg' = [rec_cfg EXCEPT ![s] = cfg]
                /\ UNCHANGED is_listening
           ELSE /\ next_config(s)
                /\ UNCHANGED rec_started
    /\ UNCHANGED << stop_listening_event, audio_queue, whisper_model,
                    selected_device_id, thread_refs, rec_dev, trans_vars,
                    gui_vars, nsessions, blocks, env_vars >>

\* the same where the stream closes without error: the configuration is not
\* looked at again once the stream runs, and is forgotten
record_audio_announce(s, named) == record_audio_announce_at(s, named, 0)

\* the same where the close of the stream may raise: the loop is still at its
\* configuration while the stream runs
record_audio_announce_in_loop(s, named) ==
    record_audio_announce_at(s, named, rec_cfg[s])

\* record_audio, lines 154-160 and 169-171: the 0.1 s poll sees the event set
\* and the with block is left; the stream closes and the finally block resets
\* is_listening, or closing the stream raises (the device is gone) and the
\* inner except clause goes on with the next configuration
record_audio_close(s, closes) ==
    /\ rec_pc[s] = "streaming"
    /\ stop_listening_event
    /\ IF closes
       THEN /\ rec_pc' = [rec_pc EXCEPT ![s] = "done"]
            /\ rec_cfg' = [rec_cfg EXCEPT ![s] = 0]
            /\ is_listening' = FALSE
            /\ UNCHANGED transcript_queue
       ELSE next_config(s)
    /\ UNCHANGED << stop_listening_event, audio_queue, whisper_model,
                    selected_device_id, thread_refs, rec_dev, rec_started,
                    trans_vars, gui_vars, nsessions, blocks, env_vars >>

\* record_audio, lines 154-156 and 169-171: the 0.1 s poll sees the event set,
\* the stream closes, the finally block resets is_listening
record_audio_stop(s) ==
    /\ rec_pc[s] = "streaming"
    /\ stop_listening_event
    /\ rec_pc' = [rec_pc EXCEPT ![s] = "done"]
    /\ is_listening' = FALSE
    /\ UNCHANGED << stop_listening_event, audio_queue, transcript_queue,
                    whisper_model, selected_device_id, thread_refs, rec_dev, rec_started,
                    rec_cfg, trans_vars, gui_vars, nsessions, blocks, env_vars >>

\* ----------------------------------------------------- transcription worker
\* process_transcription, lines 181-184: whisper_model is None is tested, then
\* the slow load begins
process_transcription_begin(t) ==
    /\ trans_pc[t] = "start"
    /\ IF whisper_model = "none"
       THEN /\ trans_pc' = [trans_pc EXCEPT ![t] = "loading"]
            /\ put(<< Line("INFO_LOADING", 0) >>)
       ELSE /\ trans_pc' = [trans_pc EXCEPT ![t] = "loop"]
            /\ UNCHANGED transcript_queue
    /\ no_audio_counter' = [no_audio_counter EXCEPT ![t] = 0]
    /\ UNCHANGED << is_listening, stop_listening_event, audio_queue, whisper_model,
                    selected_device_id, thread_refs, rec_vars, trans_cur,
                    gui_vars, nsessions, blocks, env_vars >>

\* a faulty variant of on_load_failure: the except block lacks its return and
\* the thread falls through into the loop
on_load_failure_enters_loop(t) ==
    /\ put(<< Line("ERROR_LOAD", t) >>)
    /\ stop_listening_event' = TRUE
    /\ trans_pc' = [trans_pc EXCEPT ![t] = "loop"]
    /\ UNCHANGED whisper_model

\* process_transcription, lines 193-197: the load raised
on_load_failure(t) ==
    /\ put(<< Line("ERROR_LOAD", t) >>)
    /\ stop_listening_event' = TRUE
    /\ trans_pc' = [trans_pc EXCEPT ![t] = "failed"]
    /\ UNCHANGED whisper_model

\* process_transcription, lines 186-197: the load returns or raises
process_transcription_load(t, loads) ==
    /\ trans_pc[t] = "loading"
    /\ IF loads
       THEN /\ whisper_model' = "loaded"
            /\ put(<< Line("INFO_LOADED", 0) >>)
            /\ trans_pc' = [trans_pc EXCEPT ![t] = "loop"]
            /\ UNCHANGED stop_listening_event
       ELSE on_load_failure(t)
    /\ UNCHANGED << is_listening, audio_queue, selected_device_id, thread_refs,
                    rec_vars, trans_cur, no_audio_counter, gui_vars, nsessions,
                    blocks, env_vars >>

\* lines 220-240: the lines the volume check pushes for a block of RMS volume
\* vol when the thread's no_audio_counter is n
VolumeLines(b, vol, n) ==
    IF vol > VolHigh THEN << Line("DEBUG_STRONG", b) >>
    ELSE IF vol > VolLow THEN << Line("DEBUG_WEAK", b) >>
    ELSE IF n + 1 > max_no_audio_warnings THEN << >>
    ELSE IF n + 1 = 1 THEN << Line("INFO_WAITING", b) >>
    ELSE IF n + 1 = max_no_audio_warnings
         THEN << Line("WARNING_QUIET", b), Line("HELP", 0), Line("HELP", 1),
                 Line("HELP", 2), Line("HELP", 3) >>
    ELSE << >>

\* a faulty variant of CounterAfter: audible blocks leave the counter alone
CounterAfter_no_reset(vol, n) == IF vol > VolLow THEN n ELSE n + 1

\* lines 224, 227, 230: no_audio_counter after the block
CounterAfter(vol, n) == IF vol > VolLow THEN 0 ELSE n + 1

\* a faulty variant of ReachesEngine: no volume check, every block goes on to
\* the engine call
ReachesEngine_ungated(vol) == TRUE

\* lines 228-244: whether the block goes on to the engine call
ReachesEngine(vol) == vol > VolLow /\ ~(vol < VolHigh)

\* a faulty variant of loop_ends: an empty queue ends the loop, whatever the
\* event says
loop_ends_on_empty == audio_queue = << >>

\* lines 203-205 and 327-328: the loop test of process_transcription
loop_ends == stop_listening_event /\ audio_queue = << >>

\* queue.get: the head leaves the queue
queue_get(q) == Tail(q)

\* process_transcription, lines 203-244: the loop test, the bounded get and
\* the volume check of the block it returns. An empty-queue timeout with the
\* loop test still true changes nothing and is a stuttering step
process_transcription_get(t) ==
    /\ trans_pc[t] = "loop"
    /\ IF loop_ends
       THEN /\ trans_pc' = [trans_pc EXCEPT ![t] = "done"]
            /\ UNCHANGED << audio_queue, transcript_queue, trans_cur,
                            no_audio_counter, blocks >>
       ELSE /\ audio_queue # << >>
            /\ LET b == Head(audio_queue)
                   vol == blocks[b].vol
                   go == ReachesEngine(vol)
               IN  /\ audio_queue' = queue_get(audio_queue)
                   /\ put(VolumeLines(b, vol, no_audio_counter[t]))
                   /\ no_audio_counter' = [no_audio_counter EXCEPT ![t] =
                                               CounterAfter(vol, @)]
                   /\ blocks' = [blocks EXCEPT ![b].deq = @ + 1, ![b].by = t,
                                               ![b].calls = IF go THEN @ + 1 ELSE @]
                   /\ trans_pc' = [trans_pc EXCEPT ![t] = IF go THEN "engine" ELSE "loop"]
                   /\ trans_cur' = [trans_cur EXCEPT ![t] = IF go THEN b ELSE 0]
    /\ UNCHANGED << is_listening, stop_listening_event, whisper_model,
                    selected_device_id, thread_refs, rec_vars, gui_vars, nsessions,
                    env_vars >>

\* a faulty variant of on_engine_error: a raising engine call is treated as
\* fatal, the event is set
on_engine_error_sets_flag(t) ==
    /\ put(<< Line("ERROR_TRANSCRIPTION", trans_cur[t]) >>)
    /\ stop_listening_event' = TRUE
    /\ trans_pc' = [trans_pc EXCEPT ![t] = "loop"]

\* process_transcription, lines 329-331: the engine call raised
on_engine_error(t) ==
    /\ put(<< Line("ERROR_TRANSCRIPTION", trans_cur[t]) >>)
    /\ stop_listening_event' = stop_listening_event
    /\ trans_pc' = [trans_pc EXCEPT ![t] = "loop"]

\* process_transcription, lines 251, 261, 266, 271: the engine is told the
\* language and detected_language is set to it, whatever is spoken
detected_language(block) == "en"

\* process_transcription, lines 313-325: the line of a block whose text passed
\* the filters; for Tagalog a second engine call translates it
transcript_lines(b, lang) ==
    IF lang = "tl"
    THEN << Line("INFO_TAGALOG", b), Line("TL_EN", b) >>
    ELSE << Line("EN", b) >>

\* process_transcription, lines 247-331: the engine call of the block returns
\* a text that passes the filters, or raises
process_transcription_engine(t) ==
    /\ trans_pc[t] = "engine"
    /\ LET b == trans_cur[t]
           lang == detected_language(blocks[b])
       IN  IF blocks[b].eng = "raise"
           THEN /\ on_engine_error(t)
                /\ UNCHANGED blocks
           ELSE /\ put(transcript_lines(b, lang))
                /\ blocks' = [blocks EXCEPT ![b].calls = IF lang = "tl" THEN @ + 1 ELSE @]
                /\ trans_pc' = [trans_pc EXCEPT ![t] = "loop"]
                /\ UNCHANGED stop_listening_event
    /\ trans_cur' = [trans_cur EXCEPT ![t] = 0]
    /\ UNCHANGED << is_listening, audio_queue, whisper_model, selected_device_id,
                    thread_refs, rec_vars, no_audio_counter, gui_vars, nsessions,
                    env_vars >>

\* ------------------------------------------- text filters, lines 292-325
\* a word is a sequence of characters
W_check == << "c", "h", "e", "c", "k" >>
W_Check_comma == << "C", "h", "e", "c", "k", "," >>
W_dots_check == << ".", ".", ".", "c", "h", "e", "c", "k" >>
W_ok == << "o", "k" >>
W_the == << "t", "h", "e" >>
W_quick == << "q", "u", "i", "c", "k" >>
W_brown == << "b", "r", "o", "w", "n" >>
W_fox == << "f", "o", "x" >>
W_jumps == << "j", "u", "m", "p", "s" >>
W_over == << "o", "v", "e", "r" >>
W_lazy == << "l", "a", "z", "y" >>
W_dog == << "d", "o", "g" >>

Vocabulary == << W_check, W_Check_comma, W_dots_check, W_ok, W_the, W_fox, W_dog >>

NineChecks == [i \in 1..9 |-> W_check]
FoxSentence == << W_the, W_quick, W_brown, W_fox, W_jumps, W_over, W_the, W_lazy,
                 W_dog >>

\* the texts of n words over the first m words of Vocabulary, in the order of
\* Vocabulary
RECURSIVE OrderedTexts(_, _)
OrderedTexts(n, m) ==
    IF n = 0 THEN { << >> }
    ELSE UNION { { Append(t, Vocabulary[i]) : t \in OrderedTexts(n - 1, i) } : i \in 1..m }

Texts ==
    UNION { OrderedTexts(n, Len(Vocabulary)) : n \in MinWords..MaxWords }
      \cup { NineChecks, FoxSentence }

\* str.lower, for the capitals of the vocabulary
str_lower(word) ==
    [i \in 1..Len(word) |->
        IF word[i] = "C" THEN "c"
        ELSE IF word[i] = "H" THEN "h"
        ELSE IF word[i] = "T" THEN "t"
        ELSE word[i]]

\* the characters of strip('.,!?')
strip_chars == { ".", ",", "!", "?" }

RECURSIVE str_lstrip(_)
str_lstrip(word) ==
    IF word # << >> /\ Head(word) \in strip_chars THEN str_lstrip(Tail(word)) ELSE word

RECURSIVE str_rstrip(_)
str_rstrip(word) ==
    IF word # << >> /\ word[Len(word)] \in strip_chars
    THEN str_rstrip(SubSeq(word, 1, Len(word) - 1))
    ELSE word

\* a faulty variant of word_lower: only the end of the word is stripped
word_lower_rstrip(word) == str_rstrip(str_lower(word))

\* line 298: word.lower().strip('.,!?'); str.strip removes the characters at
\* both ends of the word
word_lower(word) == str_rstrip(str_lstrip(str_lower(word)))

\* lines 296-300: the counts of the normalized words of more than 2 characters
word_counts ==
    LET counted == { i \in DOMAIN words : Len(word_lower(words[i])) > MinWordLength }
    IN  [k \in { word_lower(words[i]) : i \in counted } |->
            Cardinality({ i \in counted : word_lower(words[i]) = k })]

\* line 303: max(word_counts.values())
most_common_count ==
    CHOOSE c \in { word_counts[k] : k \in DOMAIN word_counts } :
        \A k \in DOMAIN word_counts : word_counts[k] <= c

\* lines 293-304: the text is a repetition artifact. The float product
\* len(words) * 0.4 is never below the exact one and never reaches the next
\* integer, so the comparison is the exact one
is_repetitive ==
    /\ Len(words) > RepetitionMinWords
    /\ DOMAIN word_counts # {}
    /\ most_common_count * RepetitionDen > Len(words) * RepetitionNum

RECURSIVE str_join(_)
\* " ".join(ws)
str_join(ws) ==
    IF ws = << >> THEN << >>
    ELSE IF Len(ws) = 1 THEN Head(ws)
    ELSE Head(ws) \o << " " >> \o str_join(Tail(ws))

RECURSIVE str_strip(_)
\* str.strip(): the white space at both ends is removed
str_strip(t) ==
    IF t # << >> /\ Head(t) = " " THEN str_strip(Tail(t))
    ELSE IF t # << >> /\ t[Len(t)] = " " THEN str_strip(SubSeq(t, 1, Len(t) - 1))
    ELSE t

RECURSIVE str_replace(_, _)
\* str.replace(old, ""): the occurrences of old are removed from left to right
str_replace(t, old) ==
    IF t = << >> THEN << >>
    ELSE IF Len(t) >= Len(old) /\ SubSeq(t, 1, Len(old)) = old
         THEN str_replace(SubSeq(t, Len(old) + 1, Len(t)), old)
    ELSE << Head(t) >> \o str_replace(Tail(t), old)

RECURSIVE str_split(_)
\* str.split(): the maximal pieces without white space
str_split(t) ==
    IF t = << >> THEN << >>
    ELSE IF Head(t) = " " THEN str_split(Tail(t))
    ELSE LET n == CHOOSE k \in 1..Len(t) :
                      /\ \A i \in 1..k : t[i] # " "
                      /\ k = Len(t) \/ t[k + 1] = " "
         IN  << SubSeq(t, 1, n) >> \o str_split(SubSeq(t, n + 1, Len(t)))

\* lines 281-286: the phrases removed from a text, in the order of the list
A_following ==
    << "T", "h", "e", " ", "f", "o", "l", "l", "o", "w", "i", "n", "g",
       " ", "i", "s", " ", "a", " ", "c", "l", "e", "a", "r", " ", "s",
       "p", "e", "e", "c", "h", " ", "r", "e", "c", "o", "r", "d", "i",
       "n", "g" >>
A_following_of ==
    << "T", "h", "e", " ", "f", "o", "l", "l", "o", "w", "i", "n", "g",
       " ", "i", "s", " ", "a", " ", "c", "l", "e", "a", "r", " ", "s",
       "p", "e", "e", "c", "h", " ", "r", "e", "c", "o", "r", "d", "i",
       "n", "g", " ", "o", "f" >>
A_thank_you ==
    << "T", "h", "a", "n", "k", " ", "y", "o", "u", " ", "f", "o", "r",
       " ", "w", "a", "t", "c", "h", "i", "n", "g" >>
A_thanks ==
    << "T", "h", "a", "n", "k", "s", " ", "f", "o", "r", " ", "w", "a",
       "t", "c", "h", "i", "n", "g" >>
artifacts == << A_following, A_following_of, A_thank_you, A_thanks >>

RECURSIVE remove_artifacts(_, _)
\* lines 288-289: `text = text.replace(artifact, "").strip()` for the artifacts
\* from the i-th on
remove_artifacts(t, i) ==
    IF i > Len(artifacts) THEN t
    ELSE remove_artifacts(str_strip(str_replace(t, artifacts[i])), i + 1)

\* a faulty variant of too_short: only the empty text is too short
too_short_empty(t) == t = << >>

\* lines 274 and 309: `len(text.strip()) < 5`; at line 274 `not text` is the
\* case of length 0
too_short(t) == Len(str_strip(t)) < MinTextLength

\* lines 261, 271, 274-292: the engine text is stripped; a text that is too
\* short gives a DEBUG line, any other is cleaned of the artifacts and split
\* into words
clean_text ==
    /\ text_pc = "raw"
    /\ filter_lines = << >>
    /\ IF too_short(str_strip(text))
       THEN /\ filter_lines' = << Line("DEBUG_EMPTY", 0) >>
            /\ text' = str_strip(text)
            /\ UNCHANGED << words, text_pc >>
       ELSE /\ text' = remove_artifacts(str_strip(text), 1)
            /\ words' = str_split(text')
            /\ text_pc' = "clean"
            /\ UNCHANGED filter_lines
    /\ UNCHANGED << is_listening, stop_listening_event, audio_queue, transcript_queue,
                    whisper_model, selected_device_id, thread_refs, rec_vars,
                    trans_vars, gui_vars, nsessions, blocks, trial_ok, chunk >>

\* lines 292-325: the repetition filter, the length check and the line pushed
\* for the text that passes both
filter_text ==
    /\ text_pc = "clean"
    /\ filter_lines = << >>
    /\ filter_lines' =
         IF is_repetitive THEN << Line("DEBUG_REPETITIVE", 0) >>
         ELSE IF too_short(text) THEN << Line("DEBUG_SHORT", 0) >>
         ELSE << Line("EN", text) >>
    /\ UNCHANGED << is_listening, stop_listening_event, audio_queue, transcript_queue,
                    whisper_model, selected_device_id, thread_refs, rec_vars,
                    trans_vars, gui_vars, nsessions, blocks, trial_ok, words, text,
                    text_pc, chunk >>

\* ------------------------------------------------- the variant src/main.py
\* main.py shares audio_callback, stop_listening_actions, update_gui_after_stop,
\* update_transcript_display, the wait loop of record_audio and the model load
\* of process_transcription with main_adaptive.py; what differs follows

\* `not selected_device_id` of main.py: None and the identifier 0 are falsy
falsy(id) == id = None \/ id = 0

\* main.py Application.start_listening_actions: both queues are replaced
mainpy_start_listening_actions ==
    IF falsy(selected_device_id)
    THEN UNCHANGED vars
    ELSE /\ nsessions < MaxSessions
         /\ is_listening' = TRUE
         /\ stop_listening_event' = FALSE
         /\ audio_queue' = << >>
         /\ transcript_queue' = << >>
         /\ nsessions' = nsessions + 1
         /\ recording_thread' = nsessions + 1
         /\ transcription_thread' = nsessions + 1
         /\ rec_pc' = [rec_pc EXCEPT ![nsessions + 1] = "start"]
         /\ trans_pc' = [trans_pc EXCEPT ![nsessions + 1] = "start"]
         /\ button_text' = "STOP LISTENING"
         /\ menu_state' = "disabled"
         /\ UNCHANGED << selected_device_id, button_state, whisper_model, rec_dev, rec_started,
                         rec_cfg, trans_cur, no_audio_counter, device_var, gui_pc,
                         blocks, env_vars >>

\* main.py Application.toggle_listening
mainpy_toggle_listening ==
    /\ gui_pc = "idle"
    /\ button_state = "normal"
    /\ IF falsy(selected_device_id) /\ ~is_listening
       THEN UNCHANGED vars
       ELSE IF is_listening
       THEN /\ stop_listening_actions
            /\ UNCHANGED << audio_queue, transcript_queue, whisper_model,
                            selected_device_id, thread_refs, rec_vars, trans_vars,
                            menu_state, device_var, gui_pc, nsessions, blocks,
                            env_vars >>
       ELSE mainpy_start_listening_actions

\* main.py record_audio, lines 56-65: with no device the thread reports it,
\* sets the event and dies on the undefined name update_gui_after_stop
mainpy_record_audio_begin(s) ==
    /\ rec_pc[s] = "start"
    /\ IF selected_device_id = None
       THEN /\ put(<< Line("ERROR_NO_DEVICE", 0) >>)
            /\ stop_listening_event' = TRUE
            /\ rec_pc' = [rec_pc EXCEPT ![s] = "returned"]
            /\ UNCHANGED << rec_dev, rec_started, rec_cfg >>
       ELSE /\ stop_listening_event' = FALSE
            /\ rec_pc' = [rec_pc EXCEPT ![s] = "open"]
            /\ rec_dev' = [rec_dev EXCEPT ![s] = selected_device_id]
            /\ UNCHANGED rec_started
            /\ rec_cfg' = [rec_cfg EXCEPT ![s] = 1]
            /\ UNCHANGED transcript_queue
    /\ UNCHANGED << is_listening, audio_queue, whisper_model, selected_device_id,
                    thread_refs, trans_vars, gui_vars, nsessions, blocks, env_vars >>

\* main.py record_audio, lines 77-83: any exception ends the thread with one
\* ERROR line
mainpy_record_audio_failed(s) ==
    /\ put(<< Line("ERROR_RECORDING", 0) >>)
    /\ is_listening' = FALSE
    /\ rec_pc' = [rec_pc EXCEPT ![s] = "failed"]
    /\ rec_cfg' = [rec_cfg EXCEPT ![s] = 0]

\* main.py record_audio, lines 67-72: the one configuration opens or raises
mainpy_record_audio_open(s, opens) ==
    /\ rec_pc[s] = "open"
    /\ IF opens
       THEN /\ rec_pc' = [rec_pc EXCEPT ![s] = "opened"]
            /\ UNCHANGED << is_listening, transcript_queue, rec_cfg >>
       ELSE mainpy_record_audio_failed(s)
    /\ UNCHANGED << stop_listening_event, audio_queue, whisper_model,
                    selected_device_id, thread_refs, rec_dev, rec_started, trans_vars,
                    gui_vars, nsessions, blocks, env_vars >>

\* main.py record_audio, lines 73-74: the INFO line with the looked-up name
mainpy_record_audio_announce(s, named) ==
    /\ rec_pc[s] = "opened"
    /\ IF named
       THEN /\ put(<< Line("INFO_STARTED", rec_dev[s]) >>)
            /\ rec_started' = [rec_started EXCEPT ![s] = @ + 1]
            /\ rec_pc' = [rec_pc EXCEPT ![s] = "streaming"]
            /\ rec_cfg' = [rec_cfg EXCEPT ![s] = 0]
            /\ UNCHANGED is_listening
       ELSE /\ mainpy_record_audio_failed(s)
            /\ UNCHANGED rec_started
    /\ UNCHANGED << stop_listening_event, audio_queue, whisper_model,
                    selected_device_id, thread_refs, rec_dev, trans_vars,
                    gui_vars, nsessions, blocks, env_vars >>

\* main.py process_transcription, lines 102-111: the loop test, the bounded
\* get, and the engine call made for whatever block it returns
mainpy_process_transcription_get(t) ==
    /\ trans_pc[t] = "loop"
    /\ IF loop_ends
       THEN /\ trans_pc' = [trans_pc EXCEPT ![t] = "done"]
            /\ UNCHANGED << audio_queue, trans_cur, blocks >>
       ELSE /\ audio_queue # << >>
            /\ LET b == Head(audio_queue)
               IN  /\ audio_queue' = queue_get(audio_queue)
                   /\ blocks' = [blocks EXCEPT ![b].deq = @ + 1, ![b].by = t,
                                               ![b].calls = @ + 1]
                   /\ trans_pc' = [trans_pc EXCEPT ![t] = "engine"]
                   /\ trans_cur' = [trans_cur EXCEPT ![t] = b]
    /\ UNCHANGED << is_listening, stop_listening_event, transcript_queue,
                    whisper_model, selected_device_id, thread_refs, rec_vars,
                    no_audio_counter, gui_vars, nsessions, env_vars >>

\* main.py process_transcription, line 113: the language the engine detected
mainpy_detected_language(block) == block.lang

\* main.py process_transcription, lines 119-130: the line is tagged with the
\* detected language; Tagalog is translated by a second engine call
mainpy_transcript_lines(b, lang) ==
    IF lang = "tl"
    THEN << Line("INFO_TAGALOG", b), Line("TL_EN", b) >>
    ELSE << Line("EN", b) >>

\* main.py process_transcription, lines 111-138: the engine call returns a
\* text, or raises
mainpy_process_transcription_engine(t) ==
    /\ trans_pc[t] = "engine"
    /\ LET b == trans_cur[t]
           lang == mainpy_detected_language(blocks[b])
       IN  IF blocks[b].eng = "raise"
           THEN /\ on_engine_error(t)
                /\ UNCHANGED blocks
           ELSE /\ put(mainpy_transcript_lines(b, lang))
                /\ blocks' = [blocks EXCEPT ![b].calls = IF lang = "tl" THEN @ + 1 ELSE @]
                /\ trans_pc' = [trans_pc EXCEPT ![t] = "loop"]
                /\ UNCHANGED stop_listening_event
    /\ trans_cur' = [trans_cur EXCEPT ![t] = 0]
    /\ UNCHANGED << is_listening, audio_queue, whisper_model, selected_device_id,
                    thread_refs, rec_vars, no_audio_counter, gui_vars, nsessions,
                    env_vars >>

\* ------------------------------------------------------------ specification
gui_step ==
    \/ toggle_listening
    \/ update_transcript_display

rec_step(s) ==
    \/ record_audio_begin(s)
    \/ \E opens \in BOOLEAN : record_audio_open(s, opens)
    \/ \E named \in BOOLEAN : record_audio_announce(s, named)
    \/ record_audio_stop(s)

\* lines 176-179: with no engine implementation imported, the worker pushes
\* the error line and enters process_audio_simple
process_transcription_unavailable(t) ==
    /\ trans_pc[t] = "start"
    /\ put(<< Line("ERROR_NO_WHISPER", 0) >>)
    /\ trans_pc' = [trans_pc EXCEPT ![t] = "simple"]
    /\ UNCHANGED << is_listening, stop_listening_event, audio_queue, whisper_model,
                    selected_device_id, thread_refs, rec_vars, trans_cur,
                    no_audio_counter, gui_vars, nsessions, blocks, env_vars >>

\* lines 334-352: one pass of the loop of process_audio_simple; raises says
\* whether handling the block raised
process_audio_simple(t, raises) ==
    /\ trans_pc[t] = "simple"
    /\ IF loop_ends
       THEN /\ ~raises
            /\ trans_pc' = [trans_pc EXCEPT ![t] = "done"]
            /\ UNCHANGED << audio_queue, transcript_queue, blocks >>
       ELSE /\ audio_queue # << >>
            /\ LET b == Head(audio_queue)
               IN  /\ audio_queue' = queue_get(audio_queue)
                   /\ put(IF raises THEN << Line("ERROR_AUDIO", b) >>
                          ELSE IF blocks[b].vol > VolHigh THEN << Line("AUDIO", b) >>
                          ELSE << >>)
                   /\ blocks' = [blocks EXCEPT ![b].deq = @ + 1, ![b].by = t]
                   /\ UNCHANGED trans_pc
    /\ UNCHANGED << is_listening, stop_listening_event, whisper_model,
                    selected_device_id, thread_refs, rec_vars, trans_cur,
                    no_audio_counter, gui_vars, nsessions, env_vars >>

simple_trans_step(t) ==
    \/ process_transcription_unavailable(t)
    \/ \E raises \in BOOLEAN : process_audio_simple(t, raises)

trans_step(t) ==
    \/ process_transcription_begin(t)
    \/ \E loads \in BOOLEAN : process_transcription_load(t, loads)
    \/ process_transcription_get(t)
    \/ process_transcription_engine(t)

worker_step == \E s \in Sessions : rec_step(s) \/ trans_step(s)

hardware_step ==
    /\ Len(blocks) < MaxBlocks
    /\ \E s \in Sessions : \E k \in BlockKinds : audio_callback(s, k)

\* the hardware delivering blocks of every kind
any_hardware_step ==
    /\ Len(blocks) < MaxBlocks
    /\ \E s \in Sessions : \E k \in AllBlockKinds : audio_callback(s, k)

device_change_step ==
    \/ \E d \in DeviceIds : on_device_select(d)
    \/ on_device_select_restart

\* the program as its widgets are wired: the listen button and the poll are
\* the only handlers the user and the timer run
GuiNext == gui_step \/ worker_step \/ hardware_step
GuiSpec == Init /\ [][GuiNext]_vars

\* the same with on_device_select run as a handler at any time
Next == GuiNext \/ device_change_step
Spec == Init /\ [][Next]_vars

\* every started thread is scheduled, every engine call and model load
\* returns, and the Tk timer keeps running update_transcript_display; the
\* user and the hardware owe nothing
Fairness ==
    /\ \A s \in Sessions : WF_vars(rec_step(s)) /\ WF_vars(trans_step(s))
    /\ WF_vars(update_transcript_display)
\* the program as wired, fed blocks of every kind
BlockNext == gui_step \/ worker_step \/ any_hardware_step
BlockSpec == Init /\ [][BlockNext]_vars

\* one session of the program as wired, fed a loud block of speech and then
\* silent blocks only
LoudBlock == [vol |-> 200, eng |-> "ok", lang |-> "en"]
SilentBlock == [vol |-> 0, eng |-> "ok", lang |-> "en"]

feed_step ==
    /\ Len(blocks) < 1 + SilentRun
    /\ Len(audio_queue) < MaxPending
    /\ \E s \in Sessions :
          audio_callback(s, IF blocks = << >> THEN LoudBlock ELSE SilentBlock)

\* the listen button pressed to start the session and to stop it
one_session_step ==
    /\ toggle_listening
    /\ nsessions' <= 1

FeedNext ==
    \/ one_session_step
    \/ update_transcript_display
    \/ worker_step
    \/ feed_step
FeedSpec == Init /\ [][FeedNext]_vars

\* the program as wired, with the window-close handler
closing_step ==
    \/ on_closing
    \/ \E yes \in BOOLEAN : on_closing_answer(yes)
    \/ on_closing_destroy

\* the threads run until the process ends
process_step ==
    /\ gui_pc # "closed"
    /\ worker_step \/ hardware_step

CloseNext == gui_step \/ process_step \/ closing_step
CloseSpec == Init /\ [][CloseNext]_vars

\* the program as wired, with input devices that may be gone when their
\* stream is closed
unplug_rec_step(s) ==
    \/ record_audio_begin(s)
    \/ \E opens \in BOOLEAN : record_audio_open(s, opens)
    \/ \E named \in BOOLEAN : record_audio_announce_in_loop(s, named)
    \/ \E closes \in BOOLEAN : record_audio_close(s, closes)

unplug_worker_step == \E s \in Sessions : unplug_rec_step(s) \/ trans_step(s)

UnplugNext == gui_step \/ unplug_worker_step \/ hardware_step
UnplugSpec == Init /\ [][UnplugNext]_vars

\* one session of the program as wired, fed silent, barely silent, weak and
\* loud blocks in any order
GateKinds == { [vol |-> v, eng |-> "ok", lang |-> "en"] : v \in {0, VolLow, 50, 200} }

gate_feed_step ==
    /\ Len(blocks) < GateBlocks
    /\ Len(audio_queue) < MaxPending
    /\ \E s \in Sessions : \E k \in GateKinds : audio_callback(s, k)

GateNext ==
    \/ one_session_step
    \/ update_transcript_display
    \/ worker_step
    \/ gate_feed_step
GateSpec == Init /\ [][GateNext]_vars

\* on_device_select_event, from the device menu while it is enabled: with no
\* input device the menu holds no device name and the selection stays None
on_device_select_event(d) ==
    /\ menu_state = "normal"
    /\ ~is_listening
    /\ IF device_var = None
       THEN /\ gui_pc = "idle"
            /\ selected_device_id' = None
            /\ UNCHANGED << is_listening, stop_listening_event, audio_queue,
                            transcript_queue, whisper_model, thread_refs, rec_vars,
                            trans_vars, button_text, button_state, menu_state,
                            device_var, gui_pc, nsessions, blocks, env_vars >>
       ELSE on_device_select(d)

menu_step == \E d \in DeviceIds : on_device_select_event(d)

\* main_adaptive.py started on a machine with or without input devices
DevicesInit ==
    /\ \E found \in BOOLEAN : \E d \in DeviceIds :
          Application_init(IF found THEN d ELSE None, {None} \cup DeviceIds, found, "idle")
    /\ words = << >>
    /\ text = << >>
    /\ text_pc = "none"
    /\ chunk = NoChunk
DevicesNext == gui_step \/ menu_step \/ closing_step \/ process_step
DevicesSpec == DevicesInit /\ [][DevicesNext]_vars

\* main_adaptive.py on a machine where neither engine package can be imported
\* (whisper_available is False)
simple_worker_step == \E s \in Sessions : rec_step(s) \/ simple_trans_step(s)
SimpleNext == gui_step \/ simple_worker_step \/ any_hardware_step
SimpleSpec == Init /\ [][SimpleNext]_vars

\* the blocks given to the preprocessing: silent ones, peaks around 0.001,
\* around 0.7 / 3.0 where the cap sets in, in [0.25, 0.5), around 0.7 and
\* around 1.0, each in runs of PeakRun consecutive float32 values
Peaks ==
    { F32Zero, F32(13421773, -27) }
      \cup { F32(8589935 - (PeakRun \div 2) + i, -33) : i \in 0..PeakRun }
      \cup { F32(15658735 - (PeakRun \div 2) + i, -26) : i \in 0..PeakRun }
      \cup { F32(8401266 - (PeakRun \div 2) + i, -25) : i \in 0..PeakRun }
      \cup { F32(11744051 - (PeakRun \div 2) + i, -24) : i \in 0..PeakRun }
      \cup { F32(8388608 + i, -23) : i \in 0..PeakRun }

\* numbers of samples around the limit of 1000, and of a block of 8 seconds
ChunkLengths == { 999, 1000, 1001, 128000 }

\* the preprocessing of process_transcription applied to one block, in a
\* build whose scalar quotient is a float32 or a float64
GainInit ==
    /\ Application_init(0, {None} \cup DeviceIds, TRUE, "idle")
    /\ words = << >>
    /\ text = << >>
    /\ text_pc = "none"
    /\ chunk \in { Chunk(n, x, w) : n \in ChunkLengths, x \in Peaks, w \in {32, 64} }
GainNext == preprocess
GainSpec == GainInit /\ [][GainNext]_vars

\* the text filters of process_transcription applied to one engine result
FilterInit ==
    /\ Boot(0, {None} \cup DeviceIds)
    /\ words \in Texts
    /\ text = str_join(words)
    /\ text_pc = "clean"
    /\ chunk = NoChunk
FilterNext == filter_text
FilterSpec == FilterInit /\ [][FilterNext]_vars

\* the engine results given to the length checks: up to MaxPieces artifacts,
\* short words and punctuation marks, joined with or without a space, with or
\* without a leading space, and the two examples of the repetition filter
W_Hi == << "H", "i" >>
W_of == << "o", "f" >>
W_bang == << "!" >>
Pieces == { A_following, A_following_of, A_thank_you, A_thanks,
            W_Hi, W_ok, W_check, W_of, W_bang }

RECURSIVE Joined(_)
Joined(n) ==
    IF n = 0 THEN { << >> }
    ELSE IF n = 1 THEN Pieces
    ELSE { t \o sep \o piece :
             t \in Joined(n - 1), sep \in { << >>, << " " >> }, piece \in Pieces }

RawTexts ==
    LET joined == UNION { Joined(n) : n \in 0..MaxPieces }
    IN  joined \cup { << " " >> \o t : t \in joined }
               \cup { str_join(NineChecks), str_join(FoxSentence) }

\* process_transcription from the engine result to the line pushed for it
TextInit ==
    /\ Boot(0, {None} \cup DeviceIds)
    /\ words = << >>
    /\ text \in RawTexts
    /\ text_pc = "raw"
    /\ chunk = NoChunk
TextNext == clean_text \/ filter_text
TextSpec == TextInit /\ [][TextNext]_vars

\* src/main.py as wired, with either input device selected at start-up
mainpy_gui_step ==
    \/ mainpy_toggle_listening
    \/ update_transcript_display

mainpy_rec_step(s) ==
    \/ mainpy_record_audio_begin(s)
    \/ \E opens \in BOOLEAN : mainpy_record_audio_open(s, opens)
    \/ \E named \in BOOLEAN : mainpy_record_audio_announce(s, named)
    \/ record_audio_stop(s)

mainpy_trans_step(t) ==
    \/ process_transcription_begin(t)
    \/ \E loads \in BOOLEAN : process_transcription_load(t, loads)
    \/ mainpy_process_transcription_get(t)
    \/ mainpy_process_transcription_engine(t)

mainpy_worker_step == \E s \in Sessions : mainpy_rec_step(s) \/ mainpy_trans_step(s)

MainPyInit == \E d \in DeviceIds : Boot(d, {None} \cup DeviceIds) /\ words = << >> /\ text = << >> /\ text_pc = "none" /\ chunk = NoChunk
MainPyNext == mainpy_gui_step \/ mainpy_worker_step \/ any_hardware_step
MainPySpec == MainPyInit /\ [][MainPyNext]_vars

\* main.py started on a machine with or without input devices: with none, line
\* 157 raises AttributeError (self.device_dropdown is never created) right
\* after the button is disabled, and the program ends before its main loop
MainPyDevicesInit ==
    /\ \E found \in BOOLEAN : \E d \in DeviceIds :
          Application_init(IF found THEN d ELSE None, {None} \cup DeviceIds, found,
                           IF found THEN "idle" ELSE "closed")
    /\ words = << >>
    /\ text = << >>
    /\ text_pc = "none"
    /\ chunk = NoChunk
MainPyDevicesSpec == MainPyDevicesInit /\ [][MainPyNext]_vars

\* the program as wired, entered with no device selected
AutoSpec == AutoInit /\ [][GuiNext]_vars

FairGuiSpec == GuiSpec /\ Fairness
FairSpec == Spec /\ Fairness

\* ---------------------------------------------------------------- properties
Idle == button_text = "LISTEN NOW" /\ button_state = "normal" /\ menu_state = "normal"
Stopping == button_text = "Processing..."
BlockIds == 1..MaxBlocks
AnyRecAlive == \E s \in Sessions : RecAlive(s)
AnyTransAlive == \E t \in Sessions : TransAlive(t)

\* C1: every block that audio_callback put into audio_queue while
\* stop_listening_event was not set is eventually dequeued by a transcription
\* worker, exactly once; no block is dequeued twice.
C1_EveryBlockDequeuedOnce ==
    \A b \in BlockIds :
        /\ [](b <= Len(blocks) => blocks[b].deq <= 1)
        /\ (b <= Len(blocks) /\ ~blocks[b].flag) ~> (b <= Len(blocks) /\ blocks[b].deq = 1)

\* C2: in a state where stop_listening_event is set, no step puts a block
\* into audio_queue.
C2_NoPutAfterStop ==
    [][stop_listening_event => Len(blocks') = Len(blocks)]_vars

\* C3: the step from Stopping to Idle (update_gui_after_stop) is taken only in
\* a state where no recording thread and no transcription thread of any
\* session is alive and audio_queue is empty.
C3_IdleOnlyWhenAllStopped ==
    [][(Stopping /\ Idle') => (~AnyRecAlive /\ ~AnyTransAlive /\ audio_queue = << >>)]_vars

\* C4: under fair scheduling of the workers and the poll, every stop request
\* (the controller is Stopping) is eventually followed by Idle.
C4_StopLeadsToIdle == Stopping ~> Idle

\* C5: at most one recording thread and at most one transcription thread are
\* alive in every reachable state.
C5_AtMostOneSession ==
    /\ Cardinality({s \in Sessions : RecAlive(s)}) <= 1
    /\ Cardinality({t \in Sessions : TransAlive(t)}) <= 1

C7_FlagClearedOnlyByStart ==
    [][(stop_listening_event /\ ~stop_listening_event') => nsessions' = nsessions + 1]_vars

\* C8: after a fatal error of a worker of the current session (no working
\* device, no configuration opens, the model fails to load) the system
\* eventually is Idle with no worker alive.
FatalError == \E s \in Sessions : rec_pc[s] \in {"returned", "failed"} \/ trans_pc[s] = "failed"
C8_FatalErrorLeadsToIdle == FatalError ~> (Idle /\ ~AnyRecAlive /\ ~AnyTransAlive)

\* C9: the step in which process_transcription reports a failed model load
\* pushes exactly that one ERROR line, sets stop_listening_event, ends the
\* thread and touches neither audio_queue nor any block; a thread ended that
\* way has dequeued no block (and so made no engine call).
LoadErrorPushed(t) ==
    /\ trans_pc[t] = "loading"
    /\ Len(transcript_queue') > Len(transcript_queue)
    /\ transcript_queue'[Len(transcript_queue) + 1] = Line("ERROR_LOAD", t)
C9_LoadFailureEndsWorker ==
    /\ [][\A t \in Sessions : LoadErrorPushed(t) =>
            /\ transcript_queue' = Append(transcript_queue, Line("ERROR_LOAD", t))
            /\ stop_listening_event'
            /\ ~TransAlive(t)'
            /\ audio_queue' = audio_queue
            /\ blocks' = blocks]_vars
    /\ [](\A t \in Sessions : trans_pc[t] = "failed" =>
            \A b \in 1..Len(blocks) : blocks[b].by # t)
C9_Witness ==
    \E t \in Sessions :
        /\ trans_pc[t] = "failed"
        /\ stop_listening_event
        /\ audio_queue # << >>
        /\ \E i \in 1..Len(transcript_queue) : transcript_queue[i] = Line("ERROR_LOAD", t)

\* C10: the step in which an engine call raises pushes exactly one
\* ERROR Transcription error line, leaves stop_listening_event as it was and
\* returns the worker to its loop with audio_queue untouched, so that it goes
\* on to dequeue the later blocks.
EngineRaises(t) ==
    /\ trans_pc[t] = "engine"
    /\ blocks[trans_cur[t]].eng = "raise"
    /\ trans_pc'[t] # "engine"
C10_EngineErrorIsRecovered ==
    [][\A t \in Sessions : EngineRaises(t) =>
            /\ transcript_queue' = Append(transcript_queue,
                                          Line("ERROR_TRANSCRIPTION", trans_cur[t]))
            /\ stop_listening_event' = stop_listening_event
            /\ trans_pc'[t] = "loop"
            /\ audio_queue' = audio_queue]_vars
C10_Witness ==
    \E t \in Sessions : \E b1, b2 \in 1..Len(blocks) :
        /\ b1 < b2
        /\ blocks[b1].eng = "raise" /\ blocks[b1].by = t /\ blocks[b1].calls = 1
        /\ trans_pc[t] = "engine" /\ trans_cur[t] = b2
        /\ ~stop_listening_event

\* C11: when the recording worker of a session has exited because no stream
\* configuration opened, the transcription worker of that session eventually
\* terminates (having drained audio_queue), with no stop request needed.
RecorderLostHardware(s) == rec_pc[s] = "failed" /\ TransAlive(s)
C11_TranscriberEndsAfterRecorderFailure ==
    \A s \in Sessions : RecorderLostHardware(s) ~> ~TransAlive(s)

\* the position in test_devices of the first candidate whose trial recording
\* works, and that candidate (the system default counts as a candidate)
FirstTrialOkIndex ==
    CHOOSE i \in 1..Len(test_devices) :
        /\ test_devices[i] \in trial_ok
        /\ \A j \in 1..(i - 1) : test_devices[j] \notin trial_ok
AutoDetectStep(s) ==
    rec_pc[s] = "start" /\ rec_pc'[s] # "start" /\ selected_device_id = None

\* C12: a recording thread that starts with selected_device_id None goes on
\* with the first candidate (system default, then the input devices in order)
\* whose trial recording works; it fails the session (error line,
\* stop_listening_event set, return) exactly when every trial fails.
C12_AutoDetectPicksFirstWorking ==
    [][\A s \in Sessions : AutoDetectStep(s) =>
          IF trial_ok = {}
          THEN /\ rec_pc'[s] = "returned"
               /\ stop_listening_event'
               /\ transcript_queue' = transcript_queue \o
                      << Line("INFO_SEARCHING", 0), Line("ERROR_NO_DEVICE", 0) >>
          ELSE /\ rec_pc'[s] = "open"
               /\ rec_dev'[s] = test_devices[FirstTrialOkIndex]]_vars

\* C13: when the trial of the system default fails and a device found by
\* auto-detection works, the recording thread goes on with the first working
\* device in enumeration order, attempts that device's 16000 Hz configuration
\* first, and the stream that opens on a configuration of that device is
\* announced by a 'Listening started on device' line that names it.
DefaultTrialFails == None \notin trial_ok
AnnounceStep(s) == rec_pc[s] = "opened" /\ rec_pc'[s] = "streaming"
C13_AutoDetectedDeviceIsUsed ==
    /\ [][\A s \in Sessions : (AutoDetectStep(s) /\ DefaultTrialFails /\ trial_ok # {}) =>
            /\ rec_pc'[s] = "open"
            /\ rec_dev'[s] = test_devices[FirstTrialOkIndex]
            /\ selected_device_id' = test_devices[FirstTrialOkIndex]
            /\ DeviceConfigs(rec_dev'[s])[rec_cfg'[s]] =
                   << test_devices[FirstTrialOkIndex], 16000 >>]_vars
    /\ [][\A s \in Sessions : (AnnounceStep(s) /\ rec_cfg[s] < NumConfigs) =>
            transcript_queue' = Append(transcript_queue,
                Line("INFO_STARTED", test_devices[FirstTrialOkIndex]))]_vars
C13_Witness ==
    \E s \in Sessions :
        /\ DefaultTrialFails /\ 0 \notin trial_ok
        /\ rec_pc[s] = "streaming"
        /\ rec_dev[s] = 1
        /\ \E i \in 1..Len(transcript_queue) :
               transcript_queue[i] = Line("INFO_STARTED", 1)

\* C14: record_audio attempts the configurations in the order (selected
\* device, 16000), (selected device, 44100), (selected device, 22050),
\* (system default, 16000), moving to the next one only after a failed
\* attempt; it streams on the first configuration that opens and attempts no
\* later one; when all four have failed it pushes exactly one ERROR Audio
\* recording error line and the thread ends.
ConfigsInOrder ==
    \A d \in DeviceIds :
        DeviceConfigs(d) = << <<d, 16000>>, <<d, 44100>>, <<d, 22050>>, <<None, 16000>> >>
AttemptsInOrder(s) ==
    rec_cfg'[s] # rec_cfg[s] =>
        \/ rec_pc[s] = "start" /\ rec_cfg'[s] = 1
        \/ rec_pc[s] \in {"open", "opened"} /\ rec_cfg'[s] = rec_cfg[s] + 1
        \/ rec_pc'[s] \in {"streaming", "failed"} /\ rec_cfg'[s] = 0
StreamsOnFirstThatOpens(s) ==
    /\ rec_pc[s] = "opened" => rec_pc'[s] \in {"opened", "streaming"}
    /\ rec_pc[s] = "streaming" => rec_pc'[s] \in {"streaming", "done"}
OneErrorWhenAllFail(s) ==
    (RecAlive(s) /\ rec_pc'[s] = "failed") =>
        /\ rec_cfg[s] = NumConfigs
        /\ transcript_queue' = transcript_queue \o
               << Line("ERROR_RECORDING", 0), Line("INFO_TRY_OTHER", 0) >>
C14_ConfigurationFallback ==
    /\ []ConfigsInOrder
    /\ [][\A s \in Sessions : AttemptsInOrder(s) /\ StreamsOnFirstThatOpens(s)
                              /\ OneErrorWhenAllFail(s)]_vars

\* the class the volume check gives a block: the branch of lines 222-240 taken
Strong(b) == blocks[b].vol > VolHigh
Weak(b) == ~Strong(b) /\ blocks[b].vol > VolLow
NoAudio(b) == ~Strong(b) /\ ~Weak(b)

\* C15: no engine call is ever made for a block whose RMS volume is below the
\* low threshold, an all-zero block included.
C15_SilentBlockNeverReachesEngine ==
    \A b \in 1..Len(blocks) : blocks[b].vol < VolLow => blocks[b].calls = 0

\* C16: an engine call is made only for blocks classified as strong; a block
\* classified as weak, one exactly at the high threshold included, gets none.
C16_OnlyStrongReachesEngine ==
    \A b \in 1..Len(blocks) :
        /\ blocks[b].calls > 0 => Strong(b)
        /\ Weak(b) => blocks[b].calls = 0


\* a transcript line: the text of a block, transcribed or translated
IsTranscript(line) == line.tag \in {"EN", "TL_EN"}

\* the transcript lines of block b waiting in queue q
TranscriptCount(q, b) ==
    Cardinality({i \in DOMAIN q : IsTranscript(q[i]) /\ q[i].arg = b})

\* this step pushes a transcript line for block b
PushesTranscript(b) ==
    TranscriptCount(transcript_queue', b) > TranscriptCount(transcript_queue, b)

\* thread t finishes its engine call for block b in this step
EngineCallEnds(t, b) == trans_cur[t] = b /\ trans_cur'[t] # b

\* the one session is over: both of its threads have ended
SessionOver == nsessions = 1 /\ ~RecAlive(1) /\ ~TransAlive(1)

\* C17: with a working engine, a session fed one loud block and then up to
\* SilentRun silent blocks pushes exactly one transcript line, the [EN] line of
\* the loud block: the loud block is dequeued at most once, the end of its
\* engine call pushes its [EN] line, no other step pushes a transcript line,
\* no silent block causes an engine call, and when the session is over the
\* loud block has been through the engine
C17_OneLineForOneLoudBlock ==
    /\ [](\A b \in 1..Len(blocks) :
            /\ blocks[b].deq <= 1
            /\ b > 1 => blocks[b].calls = 0
            /\ b = 1 => blocks[b].calls = blocks[b].deq)
    /\ [](SessionOver /\ whisper_model = "loaded" /\ blocks # << >>
            => blocks[1].calls = 1 /\ \A t \in Sessions : trans_cur[t] # 1)
    /\ [][/\ \A b \in 1..Len(blocks) :
               PushesTranscript(b) => b = 1 /\ \E t \in Sessions : EngineCallEnds(t, 1)
          /\ \A t \in Sessions :
               EngineCallEnds(t, 1)
                 => transcript_queue' = Append(transcript_queue, Line("EN", 1))]_vars

C17_Witness ==
    /\ Len(blocks) = 1 + SilentRun
    /\ \A b \in 1..Len(blocks) : blocks[b].deq = 1
    /\ blocks[1].calls = 1
    /\ SessionOver
    /\ \A t \in Sessions : trans_cur[t] = 0

\* the filters have run on the text and pushed no transcript line for it
Discarded == filter_lines # << >> /\ ~IsTranscript(filter_lines[1])

\* the text was pushed unchanged as a transcript line
PushedUnchanged == filter_lines = << Line("EN", text) >>

\* the positions of word that hold no punctuation character
LetterPositions(word) == { i \in DOMAIN word : word[i] \notin strip_chars }

\* the word with the punctuation at its end removed
TrailingStripped(word) ==
    IF LetterPositions(word) = {} THEN << >>
    ELSE SubSeq(word, 1, CHOOSE i \in LetterPositions(word) :
                             \A j \in LetterPositions(word) : j <= i)

\* the word with the punctuation at both of its ends removed
BothEndsStripped(word) ==
    IF LetterPositions(word) = {} THEN << >>
    ELSE SubSeq(word,
                CHOOSE i \in LetterPositions(word) : \A j \in LetterPositions(word) : i <= j,
                CHOOSE i \in LetterPositions(word) : \A j \in LetterPositions(word) : j <= i)

\* the number of words of the sequence ns equal to its most frequent word of
\* more than 2 characters
MostFrequentCount(ns) ==
    LET long == { i \in DOMAIN ns : Len(ns[i]) > 2 }
        count(i) == Cardinality({ j \in DOMAIN ns : ns[j] = ns[i] })
    IN  IF long = {} THEN 0
        ELSE CHOOSE c \in { count(i) : i \in long } : \A i \in long : count(i) <= c

\* the two examples of the claim
ExamplesFiltered ==
    /\ words = NineChecks => Discarded
    /\ words = FoxSentence => PushedUnchanged

\* C18 as stated: a text of more than 8 words is discarded exactly when the
\* count of its most frequent word, lower-cased with the trailing punctuation
\* stripped and longer than 2 characters, exceeds 40% of the number of words;
\* nine times 'check' is discarded, the fox sentence is pushed unchanged
C18_AsStated ==
    filter_lines # << >> /\ Len(words) > 8 =>
        /\ Discarded <=>
             100 * MostFrequentCount([i \in DOMAIN words |->
                                        TrailingStripped(str_lower(words[i]))])
               > 40 * Len(words)
        /\ ~Discarded => PushedUnchanged
        /\ ExamplesFiltered

\* C18: a text of more than 8 words is discarded exactly when the count of its
\* most frequent word, lower-cased with the punctuation at both ends stripped
\* and longer than 2 characters, exceeds 40% of the number of words; nine
\* times 'check' is discarded, the fox sentence is pushed unchanged
C18_RepetitionFilter ==
    filter_lines # << >> /\ Len(words) > 8 =>
        /\ Discarded <=>
             100 * MostFrequentCount([i \in DOMAIN words |->
                                        BothEndsStripped(str_lower(words[i]))])
               > 40 * Len(words)
        /\ ~Discarded => PushedUnchanged
        /\ ExamplesFiltered

\* a text discarded because of words that differ only in leading punctuation
C18_Witness ==
    /\ Len(words) > 8
    /\ Discarded
    /\ \E i \in DOMAIN words : Head(words[i]) \in strip_chars
    /\ \A w \in { words[i] : i \in DOMAIN words } :
          10 * Cardinality({ i \in DOMAIN words : words[i] = w }) <= 4 * Len(words)

\* the engine calls for block b are over and the engine returned a text
Transcribed(b) ==
    /\ blocks[b].eng = "ok"
    /\ blocks[b].calls > 0
    /\ \A t \in Sessions : trans_cur[t] # b

\* C19: a block that passes the gate and in which the engine detects 'tl' gets
\* exactly two engine calls and its line is tagged [TL > EN]; a block of any
\* other detected language gets exactly one engine call and a plain line
C19_TagalogIsTranslated ==
    /\ [](\A b \in 1..Len(blocks) :
            Transcribed(b) => blocks[b].calls = IF blocks[b].lang = "tl" THEN 2 ELSE 1)
    /\ [][\A t \in Sessions : \A b \in 1..Len(blocks) :
            EngineCallEnds(t, b) /\ blocks[b].eng = "ok" =>
                /\ transcript_queue' # << >>
                /\ transcript_queue'[Len(transcript_queue')] =
                     Line(IF blocks[b].lang = "tl" THEN "TL_EN" ELSE "EN", b)]_vars

\* C20: transcript lines are pushed, and so rendered, in the capture order of
\* their blocks: no step pushes the line of a block when the line of a block
\* captured after it has been pushed already
C20_LinesInCaptureOrder ==
    [][\A a \in 1..Len(blocks) : \A b \in 1..Len(blocks) :
          a < b /\ PushesTranscript(a) => ~Transcribed(b)]_vars

\* thread t's load of the engine model returns in this step
SuccessfulLoad(t) == trans_pc[t] = "loading" /\ trans_pc'[t] = "loop"

\* thread t starts running in this step with the model already loaded
StartsWithModel(t) ==
    trans_pc[t] = "start" /\ trans_pc'[t] # "start" /\ whisper_model = "loaded"

\* C21: the engine model is loaded at most once: a load returns successfully
\* only while no model is loaded, and a transcription worker that starts with
\* the model loaded enters its loop without a load
C21_ModelLoadedAtMostOnce ==
    [][\A t \in Sessions :
          /\ SuccessfulLoad(t) => whisper_model = "none"
          /\ StartsWithModel(t) =>
                trans_pc'[t] = "loop" /\ transcript_queue' = transcript_queue]_vars

\* on_device_select, having stopped the session, starts the new one in this step
DeviceChangeRestarts == gui_pc = "restart" /\ gui_pc' = "idle"

\* C22: a device change while listening starts the new session only when the
\* old session's recording and transcription workers have both terminated and
\* the old audio_queue has been drained
C22_DeviceChangeWaitsForOldSession ==
    [][DeviceChangeRestarts =>
          /\ \A s \in Sessions : ~RecAlive(s) /\ ~TransAlive(s)
          /\ audio_queue = << >>]_vars

\* the user declines the confirmation of on_closing in this step
CloseDeclined == gui_pc = "asking" /\ gui_pc' = "idle"

\* on_closing destroys the window of a session the user confirmed to end
WindowDestroyed == gui_pc = "closing" /\ gui_pc' = "closed"

\* C23: a declined window-close request leaves is_listening, the event, both
\* queues and both workers unchanged; a confirmed one has is_listening false
\* and stop_listening_event set when the window is destroyed
C23_CloseRequest ==
    [][/\ CloseDeclined =>
             UNCHANGED << is_listening, stop_listening_event, audio_queue,
                          transcript_queue, thread_refs, rec_vars, trans_vars >>
       /\ WindowDestroyed => ~is_listening /\ stop_listening_event]_vars

\* every line waiting in transcript_queue is still waiting, in place, after
\* the step
LinesKept ==
    /\ Len(transcript_queue') >= Len(transcript_queue)
    /\ SubSeq(transcript_queue', 1, Len(transcript_queue)) = transcript_queue

\* a step of the presentation poll, which touches no worker, queue of blocks
\* or session
PollStep ==
    UNCHANGED << is_listening, stop_listening_event, audio_queue, thread_refs,
                 rec_vars, trans_vars, nsessions, blocks, gui_pc >>

\* C24: no line pushed to transcript_queue is dropped: only the poll, which
\* renders them, takes lines out of the queue; the start of a later session
\* does not
C24_NoLineDropped == [][LinesKept \/ PollStep]_vars

\* thread t is inside the main loop of process_transcription
InLoop(t) == trans_pc[t] \in {"loop", "engine"}

\* C25: a transcription worker inside its main loop leaves it only by the loop
\* test, with stop_listening_event set and audio_queue empty; with the event
\* unset an empty queue never ends the loop
C25_LoopEndsOnlyWhenStoppedAndDrained ==
    [][\A t \in Sessions :
          InLoop(t) /\ ~InLoop(t)' =>
              /\ stop_listening_event
              /\ audio_queue = << >>
              /\ trans_pc'[t] = "done"]_vars

\* a worker has left its loop after dequeuing a block, and another one stays in
\* its loop with the event unset and the queue empty
C25_Witness ==
    \E t \in Sessions : \E u \in Sessions :
        /\ trans_pc[t] = "done"
        /\ \E b \in 1..Len(blocks) : blocks[b].by = t
        /\ InLoop(u)
        /\ ~stop_listening_event
        /\ audio_queue = << >>

\* session s is Listening: it is the session the GUI shows, its stream is
\* open, and no stop has been requested since it started
Listening(s) ==
    /\ s = nsessions
    /\ rec_pc[s] = "streaming"
    /\ button_text = "STOP LISTENING"
    /\ ~stop_listening_event

RaisedWhileOpen(s) == rec_pc[s] = "opened" /\ rec_pc'[s] \notin {"opened", "streaming"}

\* C27: an exception raised while the stream is open makes record_audio push
\* an error line and exit; the stream is not reopened with the next
\* configuration
C27_ExceptionWhileOpenEndsRecorder ==
    [][\A s \in Sessions :
          RaisedWhileOpen(s) =>
              /\ rec_pc'[s] = "failed"
              /\ \E i \in DOMAIN transcript_queue' :
                    /\ i > Len(transcript_queue)
                    /\ transcript_queue'[i] = Line("ERROR_RECORDING", 0)]_vars

\* C28: a recording thread pushes its 'Listening started' line at most once
\* in its session, and only with a stream it has opened successfully
C28_StartedLineOncePerSession ==
    /\ [](\A s \in Sessions : rec_started[s] <= 1)
    /\ [][\A s \in Sessions :
            rec_started'[s] # rec_started[s] =>
                /\ rec_pc[s] = "opened"
                /\ rec_pc'[s] = "streaming"
                /\ \E d \in {None} \cup DeviceIds :
                      transcript_queue' = Append(transcript_queue, Line("INFO_STARTED", d))]_vars

\* thread t dequeues block b in this step
Dequeues(t, b) ==
    /\ b \in 1..Len(blocks)
    /\ blocks'[b].deq = blocks[b].deq + 1
    /\ blocks'[b].by = t

\* the blocks thread t had dequeued before this step
DequeuedBy(t) == { k \in 1..Len(blocks) : blocks[k].deq > 0 /\ blocks[k].by = t }

\* the place of block b in the run of consecutive no-audio blocks of thread t
\* that it continues: one more than the no-audio blocks t has dequeued since its
\* last weak or strong block
RunPosition(t, b) ==
    LET audible == { k \in DequeuedBy(t) : ~NoAudio(k) }
        last == IF audible = {} THEN 0
                ELSE CHOOSE k \in audible : \A j \in audible : j <= k
    IN  1 + Cardinality({ k \in DequeuedBy(t) : k > last })

\* the tags of the lines pushed in this step
PushedTags ==
    [i \in 1..(Len(transcript_queue') - Len(transcript_queue)) |->
        transcript_queue'[Len(transcript_queue) + i].tag]

\* C29: for a no-audio block the worker pushes one INFO line if it is the 1st
\* of its run, the WARNING and HELP lines if it is the 3rd, and nothing
\* otherwise; a run ends only with a weak or strong block
C29_NoAudioLinesAreBounded ==
    [][\A t \in Sessions : \A b \in 1..Len(blocks) :
          Dequeues(t, b) /\ NoAudio(b) =>
              /\ LinesKept
              /\ PushedTags =
                   IF RunPosition(t, b) = 1 THEN << "INFO_WAITING" >>
                   ELSE IF RunPosition(t, b) = 3
                        THEN << "WARNING_QUIET", "HELP", "HELP", "HELP", "HELP" >>
                   ELSE << >>]_vars

\* a worker has gone through a run of four no-audio blocks, a weak block and
\* the first no-audio block of the next run
C29_Witness ==
    /\ Len(blocks) = 6
    /\ \A b \in 1..6 : blocks[b].deq = 1 /\ blocks[b].by = 1
    /\ \A b \in 1..4 : NoAudio(b)
    /\ Weak(5)
    /\ NoAudio(6)
    /\ no_audio_counter[1] = 1

\* the text of the transcript line pushed for the engine result, if any
PushedText == { filter_lines[i].arg : i \in { j \in DOMAIN filter_lines :
                                                  filter_lines[j].tag = "EN" } }

\* the lines pushed for the engine result are one DEBUG line
OneDebugLine ==
    /\ Len(filter_lines') = 1
    /\ filter_lines'[1].tag \in { "DEBUG_EMPTY", "DEBUG_REPETITIVE", "DEBUG_SHORT" }

\* the number of characters of t between its first and its last character that
\* is not white space
StrippedLength(t) ==
    LET inked == { i \in 1..Len(t) : t[i] # " " }
    IN  IF inked = {} THEN 0
        ELSE (CHOOSE i \in inked : \A j \in inked : j <= i)
               - (CHOOSE i \in inked : \A j \in inked : i <= j) + 1

\* C30: no transcript line has a text of fewer than 5 characters; an engine
\* text of fewer than 5 characters, and a text of fewer than 5 characters after
\* the artifacts are removed and the repetition filter is passed, each give one
\* DEBUG line and no transcript line
C30_NoShortTranscriptLine ==
    /\ [](\A t \in PushedText : Len(t) >= 5)
    /\ [][/\ text_pc = "raw" /\ StrippedLength(text) < 5 => OneDebugLine
          /\ text_pc = "clean" /\ StrippedLength(text) < 5 => OneDebugLine]_vars

\* an engine text long enough as returned and too short once its artifacts are
\* removed has given a DEBUG line
C30_Witness ==
    /\ text_pc = "clean"
    /\ text = W_of
    /\ filter_lines = << Line("DEBUG_SHORT", 0) >>

\* the lines of the queue after this step that this step pushed
Pushed == SubSeq(transcript_queue', Len(transcript_queue) + 1, Len(transcript_queue'))

\* C31: when the engine call for a block of detected language 'tl' ends with a
\* text, the lines pushed are kept in order behind the earlier ones and the
\* translation line of the block comes directly after the primary transcript
\* line of the same block
C31_TranslationFollowsPrimary ==
    [][\A t \in Sessions : \A b \in 1..Len(blocks) :
          /\ EngineCallEnds(t, b)
          /\ blocks[b].eng = "ok"
          /\ blocks[b].lang = "tl"
          => /\ LinesKept
             /\ \E i \in 1..(Len(Pushed) - 1) :
                   /\ Pushed[i] = Line("TL", b)
                   /\ Pushed[i + 1] = Line("TL_EN", b)]_vars

\* a start of a session: the event is cleared, audio_queue is fresh and both
\* workers of the new session are spawned
SessionStarts ==
    /\ ~is_listening
    /\ is_listening'
    /\ ~stop_listening_event'
    /\ audio_queue' = << >>
    /\ nsessions' = nsessions + 1
    /\ recording_thread' = nsessions'
    /\ transcription_thread' = nsessions'
    /\ rec_pc'[nsessions'] = "start"
    /\ trans_pc'[nsessions'] = "start"

\* C32: in main.py the LISTEN button pressed in Idle starts a session for
\* every identifier of the device list, identifier 0 included; with no device
\* selected no session starts
C32_StartAcceptedForEveryDevice ==
    /\ [](/\ Idle
          /\ gui_pc = "idle"
          /\ ~is_listening
          /\ nsessions < MaxSessions
          /\ selected_device_id \in DeviceIds
          => ENABLED (mainpy_toggle_listening /\ SessionStarts))
    /\ [][selected_device_id = None =>
             /\ is_listening' = is_listening
             /\ stop_listening_event' = stop_listening_event
             /\ nsessions' = nsessions
             /\ thread_refs' = thread_refs]_vars

\* no worker thread was ever spawned
NoWorkerSpawned ==
    /\ nsessions = 0
    /\ recording_thread = 0
    /\ transcription_thread = 0
    /\ \A s \in Sessions : rec_pc[s] = "unborn" /\ trans_pc[s] = "unborn"

\* C33: a program started with no input device (no device is selected) has its
\* start button disabled, never spawns a worker and never listens, and no
\* device gets selected later
C33_NoDeviceIsTerminal ==
    /\ [](selected_device_id = None =>
             /\ button_state = "disabled"
             /\ button_text = "LISTEN NOW"
             /\ ~is_listening
             /\ NoWorkerSpawned)
    /\ [][selected_device_id = None => selected_device_id' = None]_vars

\* the program started with no input device and its window was closed
C33_Witness ==
    /\ selected_device_id = None
    /\ button_state = "disabled"
    /\ gui_pc = "closed"

\* the number of 'Listening stopped' lines in the queue q
RECURSIVE StoppedLines(_)
StoppedLines(q) ==
    IF q = << >> THEN 0
    ELSE (IF Head(q).tag = "INFO_STOPPED" THEN 1 ELSE 0) + StoppedLines(Tail(q))

\* the number of 'Listening stopped' lines pushed in this step: those behind
\* the lines already waiting, or all of them when the poll emptied the queue
StoppedPushed ==
    IF LinesKept THEN StoppedLines(transcript_queue') - StoppedLines(transcript_queue)
    ELSE StoppedLines(transcript_queue')

\* C34: the step that completes a stop (from Processing... to Idle) pushes the
\* 'Listening stopped' line once, with both workers of the session that was
\* stopped terminated and audio_queue empty; no other step pushes that line
C34_StoppedLineOncePerStop ==
    [][/\ Stopping /\ Idle' =>
             /\ StoppedPushed = 1
             /\ nsessions > 0
             /\ ~RecAlive(nsessions)
             /\ ~TransAlive(nsessions)
             /\ audio_queue = << >>
       /\ ~(Stopping /\ Idle') => StoppedPushed = 0]_vars

\* a stop was completed after the session had dequeued a block, and its line
\* waits for the next poll
C34_Witness ==
    /\ Idle
    /\ nsessions > 0
    /\ transcript_queue = << Line("INFO_STOPPED", 0) >>
    /\ \E b \in 1..Len(blocks) : blocks[b].deq > 0

\* C35: with no engine implementation, a worker that starts pushes the one
\* error line and enters the fallback loop, and no other step pushes that
\* line; no block is ever given to an engine and no model is loaded; a worker
\* leaves the fallback loop only with stop_listening_event set and audio_queue
\* empty, and then it ends
C35_FallbackLoopDrainsQueue ==
    /\ [](/\ whisper_model = "none"
          /\ \A b \in 1..Len(blocks) : blocks[b].calls = 0)
    /\ [][/\ \A t \in Sessions :
               /\ trans_pc[t] = "start" /\ trans_pc'[t] # "start" =>
                     /\ LinesKept
                     /\ Pushed = << Line("ERROR_NO_WHISPER", 0) >>
                     /\ trans_pc'[t] = "simple"
               /\ trans_pc[t] = "simple" /\ trans_pc'[t] # "simple" =>
                     /\ stop_listening_event
                     /\ audio_queue = << >>
                     /\ trans_pc'[t] = "done"
          /\ (LinesKept /\ \E i \in DOMAIN Pushed : Pushed[i].tag = "ERROR_NO_WHISPER")
                => \E t \in Sessions : trans_pc[t] = "start" /\ trans_pc'[t] = "simple"]_vars

\* a fallback worker ended after dequeuing a loud and a silent block
C35_Witness ==
    \E t \in Sessions :
        /\ trans_pc[t] = "done"
        /\ \E b \in 1..Len(blocks) :
              blocks[b].by = t /\ blocks[b].vol > VolHigh /\ blocks[b].calls = 0
        /\ \E b \in 1..Len(blocks) : blocks[b].by = t /\ blocks[b].vol = 0

\* ------------------------------------------------------------------ C36
\* the largest float32 that a scaled peak takes: one step above 0.7
Float32_above_0_7 == F32(Float32_0_7.m + 1, Float32_0_7.e)

\* a gain was applied to the block
Scaled == chunk.gain # F32Zero

\* C36 as the code has it: a gain is applied to a block only when it has more
\* than 1000 samples and its peak after the removal of the mean exceeds 0.001;
\* the gain is then min(0.7 / peak, 3.0), so it never exceeds 3.0; below the cap
\* the scaled peak never exceeds 0.7 by more than one float32 rounding step;
\* a block of 1000 samples or fewer is handed on unmodified
C36_GainIsCappedAndPeakNearTarget ==
    chunk.pc = "done" =>
        /\ Scaled <=> /\ chunk.len > MinChunkLength
                      /\ exceeds_threshold(chunk.max_amplitude, chunk.width)
        /\ Scaled =>
              /\ ~F32Less(Float32_3_0, chunk.gain)
              /\ chunk.gain = IF chunk.width = 32
                              THEN (IF F32Less(QuotientFloat32(chunk.max_amplitude), Float32_3_0)
                                    THEN QuotientFloat32(chunk.max_amplitude) ELSE Float32_3_0)
                              ELSE (IF F32Less(QuotientFloat64(chunk.max_amplitude), Float32_3_0)
                                    THEN QuotientFloat64(chunk.max_amplitude) ELSE Float32_3_0)
              /\ F32Less(chunk.gain, Float32_3_0)
                    => ~F32Less(Float32_above_0_7, chunk.peak)
        /\ chunk.len <= MinChunkLength
              => ~chunk.centred /\ chunk.gain = F32Zero

\* a block of more than 1000 samples scaled by a gain below the cap whose peak
\* after scaling is one float32 step above 0.7
C36_Witness ==
    /\ chunk.pc = "done"
    /\ chunk.len > MinChunkLength
    /\ Scaled
    /\ F32Less(chunk.gain, Float32_3_0)
    /\ chunk.peak = Float32_above_0_7

\* C36 as stated: below the cap the peak after scaling never exceeds 0.7
C36_PeakNeverExceedsTarget ==
    chunk.pc = "done" /\ Scaled /\ F32Less(chunk.gain, Float32_3_0)
        => ~F32Less(Float32_0_7, chunk.peak)
====
